---- MODULE Spec2Model ----
(***************************************************************************)
(* Order-book monitor: the three exchange connectors (Binance, FoxBit,     *)
(* MercadoBitcoin) and the OrderBookManager that aggregates them.          *)
(*                                                                         *)
(* One step of the model is one task of the JavaScript event loop: a call  *)
(* of the public API, a WebSocket callback, a timer callback or the        *)
(* continuation of an awaited promise.  Listeners are called               *)
(* synchronously, so the manager's handling of a connector event is part   *)
(* of the step in which the connector emits it.                            *)
(***************************************************************************)
EXTENDS Integers, Sequences, FiniteSets, Bags, TLC

VARIABLES
    connector,   \* exchange id -> the fields of that connector object
    manager,     \* the fields of the OrderBookManager object
    last         \* observation of the last step (what ran, what it emitted)

vars == <<connector, manager, last>>

-----------------------------------------------------------------------------
(* Bounds of the model                                                     *)

\* pending connect() promises plus pending reconnect timers, per connector
MaxPending == 2
\* sockets of earlier attempts that still have their callbacks attached
MaxOrphans == 1
\* debounce timers of the manager that are pending without a handle
MaxLeaked == 1
\* _handleOpen continuations of the FoxBit connector awaiting the REST fetch
MaxFetch == 1
\* largest reconnect.maxAttempts among the enumerated configurations
MaxAttemptsCfg == 2
\* callbacks a client registers per manager listener set
MaxCallbacks == 1
\* most price levels a side of an inbound frame or of the REST snapshot carries
MaxLevels == 2
\* largest depth among the configurations of the connectors that receive books
MaxDepth == 2

-----------------------------------------------------------------------------
(* Types of the data model                                                 *)

Exchanges == {"binance", "foxbit", "mercadobitcoin"}

DISCONNECTED == "disconnected"
CONNECTING == "connecting"
CONNECTED == "connected"
RECONNECTING == "reconnecting"
ERROR == "error"

ConnectionStatus == {DISCONNECTED, CONNECTING, CONNECTED, RECONNECTING, ERROR}

ORDER_BOOK_UPDATE == "orderBookUpdate"
STATUS_CHANGE == "statusChange"
ERROR_EVENT == "error"

\* readyState of the socket this._ws refers to; NoSocket is this._ws === null
NoSocket == "null"
WS_CONNECTING == "CONNECTING"
WS_OPEN == "OPEN"
WS_CLOSED == "CLOSED"

StatusEvent(s) == [type |-> STATUS_CHANGE, status |-> s, data |-> <<>>]
\* an ERROR event: the connector's id, the message, and the message of the
\* Error object that caused it
ErrorEvent(c, message, cause) ==
    [type |-> ERROR_EVENT, status |-> "", data |-> <<>>,
     exchange |-> c, message |-> message, error |-> cause]

ParseFailure(c) == ErrorEvent(c, "Failed to parse message: SyntaxError", "SyntaxError")
SocketFailure(c) == ErrorEvent(c, "WebSocket error occurred", "WebSocket error")
ServerFailure(c) == ErrorEvent(c, "server message", "server message")
FetchFailure(c) == ErrorEvent(c, "Failed to fetch initial snapshot: TypeError", "TypeError")
BookEvent(b) == [type |-> ORDER_BOOK_UPDATE, status |-> "", data |-> <<b>>]

-----------------------------------------------------------------------------
(* Numbers                                                                 *)

RECURSIVE Pow(_, _)
Pow(b, e) == IF e <= 0 THEN 1 ELSE b * Pow(b, e - 1)

Min(a, b) == IF a <= b THEN a ELSE b

\* a delay is the exact rational <<numerator, denominator>> of milliseconds
RatEq(a, b) == a[1] * b[2] = b[1] * a[2]
RatLeq(a, b) == a[1] * b[2] <= b[1] * a[2]

\* parseFloat on the numeric strings the feeds carry
ParseFloat(s) ==
    CASE s = "0" -> 0
      [] s = "0.0" -> 0
      [] s = "1" -> 1
      [] s = "2" -> 2
      [] s = "100" -> 100
      [] s = "100.0" -> 100
      [] s = "101" -> 101
      [] s = "102" -> 102

-----------------------------------------------------------------------------
(* Symbols                                                                 *)

UpperCase == <<"A", "B", "C", "D", "E", "F", "G", "H", "I", "J", "K", "L", "M",
               "N", "O", "P", "Q", "R", "S", "T", "U", "V", "W", "X", "Y", "Z">>
LowerCase == <<"a", "b", "c", "d", "e", "f", "g", "h", "i", "j", "k", "l", "m",
               "n", "o", "p", "q", "r", "s", "t", "u", "v", "w", "x", "y", "z">>
Digits == <<"0", "1", "2", "3", "4", "5", "6", "7", "8", "9">>

IndexIn(q, ch) == CHOOSE i \in 1..Len(q) : q[i] = ch
Occurs(q, ch) == \E i \in 1..Len(q) : q[i] = ch

\* the code unit of a character
CharCode(ch) ==
    CASE Occurs(UpperCase, ch) -> 64 + IndexIn(UpperCase, ch)
      [] Occurs(LowerCase, ch) -> 96 + IndexIn(LowerCase, ch)
      [] Occurs(Digits, ch) -> 47 + IndexIn(Digits, ch)
      [] ch = "-" -> 45
      [] ch = "/" -> 47
      [] ch = "_" -> 95

\* the characters of the symbols the model uses
Chars(symbol) ==
    CASE symbol = "BTC/USDT" -> <<"B", "T", "C", "/", "U", "S", "D", "T">>
      [] symbol = "ETH/USDT" -> <<"E", "T", "H", "/", "U", "S", "D", "T">>
      [] symbol = "btc/usdt" -> <<"b", "t", "c", "/", "u", "s", "d", "t">>
      [] symbol = "eth-brl" -> <<"e", "t", "h", "-", "b", "r", "l">>
      [] symbol = "1inch_usdt" -> <<"1", "i", "n", "c", "h", "_", "u", "s", "d", "t">>

ToUpperCase(q) ==
    [i \in 1..Len(q) |->
        IF Occurs(LowerCase, q[i]) THEN UpperCase[IndexIn(LowerCase, q[i])] ELSE q[i]]

ToLowerCase(q) ==
    [i \in 1..Len(q) |->
        IF Occurs(UpperCase, q[i]) THEN LowerCase[IndexIn(UpperCase, q[i])] ELSE q[i]]

\* the character class [/-_] of the pattern: the range from "/" to "_"
InSeparatorClass(ch) == CharCode("/") <= CharCode(ch) /\ CharCode(ch) <= CharCode("_")

\* toExchangeSymbol: symbol.replace(/[/-_]/g, "").toUpperCase(), in lower
\* case for Binance
toExchangeSymbol(symbol, toFormat) ==
    LET clean == ToUpperCase(SelectSeq(Chars(symbol), LAMBDA ch : ~InSeparatorClass(ch)))
    IN  IF toFormat = "binance" THEN ToLowerCase(clean) ELSE clean

-----------------------------------------------------------------------------
(* Order books                                                             *)

\* trimOrderBook: the first maxDepth levels of each side
trimOrderBook(orderBook, maxDepth) ==
    [orderBook EXCEPT !.bids = SubSeq(@, 1, Min(Len(@), maxDepth)),
                      !.asks = SubSeq(@, 1, Min(Len(@), maxDepth))]

\* the depth limit every connector applies before it caches and emits a book
ApplyDepth(orderBook, cfg) ==
    IF cfg.depth > 0 THEN trimOrderBook(orderBook, cfg.depth) ELSE orderBook

\* [priceStr, qtyStr] pairs -> {price, quantity} entries (parseFloat on both)
ParseLevels(pairs) ==
    [i \in 1..Len(pairs) |->
        [price |-> ParseFloat(pairs[i][1]), quantity |-> ParseFloat(pairs[i][2])]]

\* a JavaScript Map<string, string> as its entries in insertion order
MapHas(m, k) == \E i \in 1..Len(m) : m[i][1] = k
MapDelete(m, k) == SelectSeq(m, LAMBDA e : e[1] # k)
MapSet(m, k, v) ==
    IF MapHas(m, k)
    THEN [i \in 1..Len(m) |-> IF m[i][1] = k THEN <<k, v>> ELSE m[i]]
    ELSE Append(m, <<k, v>>)

\* Array.prototype.sort (stable) of [price, qty] pairs by parseFloat(price)
RECURSIVE InsertSorted(_, _, _)
InsertSorted(sorted, e, desc) ==
    IF sorted = <<>> THEN <<e>>
    ELSE LET h == Head(sorted)
             before == IF desc THEN ParseFloat(h[1]) >= ParseFloat(e[1])
                               ELSE ParseFloat(h[1]) <= ParseFloat(e[1])
         IN  IF before THEN <<h>> \o InsertSorted(Tail(sorted), e, desc)
                       ELSE <<e>> \o sorted

RECURSIVE SortPairs(_, _)
SortPairs(pairs, desc) ==
    IF pairs = <<>> THEN <<>>
    ELSE InsertSorted(SortPairs(SubSeq(pairs, 1, Len(pairs) - 1), desc),
                      pairs[Len(pairs)], desc)

-----------------------------------------------------------------------------
(* The world a step works on: every object's fields plus what the step     *)
(* has emitted, sent and published so far.                                 *)

World ==
    [conn |-> connector, mgr |-> manager,
     ev |-> <<>>,        \* connector events emitted, in order
     sent |-> <<>>,      \* frames written to a socket: <<type, market>>, in order
     sched |-> <<>>,     \* delays of the reconnect timers scheduled
     obPub |-> 0,        \* consolidated publishes (rounds over the callbacks)
     stPub |-> 0,        \* status publishes
     errPub |-> 0,       \* error publishes
     status |-> <<>>,    \* the ManagerStatus of the last status publish, if any
     errors |-> <<>>,    \* the errors published, in order
     books |-> <<>>,     \* the consolidated books published, in order
     calling |-> FALSE,  \* a callback of the publish has yet to call the manager
     owed |-> 0,         \* publishes whose setTimeout is still to come
     inv |-> 0,          \* listener invocations of the manager's three sets
     calls |-> EmptyBag, \* the listener invocations: <<kind, listener>>
     caught |-> 0]       \* exceptions of listeners caught and logged

-----------------------------------------------------------------------------
(* OrderBookManager: private methods                                       *)

RECURSIVE SeqToSet(_)
SeqToSet(q) == IF q = <<>> THEN {} ELSE {Head(q)} \cup SeqToSet(Tail(q))

\* listeners that throw whenever they are called: the manager's callback 2
\* and the listener a client of its own registers with a connector
ThrowingCallbacks == {2}
ThrowingListeners == {"client"}

Throwing(kind) == IF kind = "connector" THEN ThrowingListeners ELSE ThrowingCallbacks

\* a loop over the listeners without try/catch: the listener that throws
\* ends it
InvokeAll_NoCatch(W, kind, cbs) ==
    LET called == IF cbs \cap Throwing(kind) # {} THEN cbs \cap Throwing(kind) ELSE cbs
    IN  [W EXCEPT !.calls = @ (+) SetToBag({<<kind, cb>> : cb \in called}),
                  !.inv = IF kind = "connector" THEN @ ELSE @ + Cardinality(called)]

\* for (const callback of set) { try { callback(data) } catch { log } }:
\* every listener of the set is called, what one throws is caught and logged
InvokeAll(W, kind, cbs) ==
    [W EXCEPT !.calls = @ (+) SetToBag({<<kind, cb>> : cb \in cbs}),
              !.inv = IF kind = "connector" THEN @ ELSE @ + Cardinality(cbs),
              !.caught = @ + Cardinality(cbs \cap Throwing(kind))]

\* _emitOrderBookUpdate with a debounce window already open: only the flag
\* (windowCalls is an observation, not a field of the manager: a call of
\* _emitOrderBookUpdate has arrived since the open window was opened)
EmitDuringWindow(W) == [W EXCEPT !.mgr.pendingUpdate = TRUE, !.mgr.windowCalls = TRUE]

\* _getCommonSymbol: the symbol of the snapshot the first connector of the
\* map holds
GetCommonSymbol(conn, m) ==
    IF m.connectors = <<>> THEN "UNKNOWN"
    ELSE LET orderBook == conn[Head(m.connectors)].orderBook
         IN  IF orderBook = <<>> \/ orderBook[1].symbol = "" THEN "UNKNOWN"
             ELSE orderBook[1].symbol

\* getConsolidatedOrderBook (lastUpdate, the time of the call, is left out)
GetConsolidatedOrderBook(conn, m) ==
    [byExchange |-> m.orderBooks, symbol |-> GetCommonSymbol(conn, m)]

\* a subscriber of the consolidated book that calls the manager back from
\* inside the publish: callback 0 unregisters the first connector of the map
\* (a client that drops an exchange when it sees its data)
UnregisteringCallbacks == {0}

\* this._debounceTimeout = setTimeout(...): a timer the field already names
\* stays pending, and its handle is overwritten (leakedDebounce counts the
\* pending timers without a handle)
OpenWindow(W) ==
    IF W.mgr.config.debounceMs > 0
    THEN [W EXCEPT !.mgr.leakedDebounce = IF W.mgr.debounceTimeout THEN @ + 1 ELSE @,
                   !.mgr.debounceTimeout = TRUE,
                   !.mgr.windowEvents = 0, !.mgr.windowCalls = FALSE]
    ELSE W

\* _emitOrderBookUpdate with no window open: publish, then open the window.
\* setTimeout runs after the loop over the callbacks.  When a callback of
\* the loop calls the manager, the call (calling) and the setTimeout still
\* to come (owed) are left to Reenter, which runs them in this order before
\* the step ends; _debounceTimeout is null meanwhile, as it is in the code.
EmitNow(W) ==
    LET data == GetConsolidatedOrderBook(W.conn, W.mgr)
        P == InvokeAll([W EXCEPT !.obPub = @ + 1, !.books = Append(@, data)],
                       "orderBook", W.mgr.orderBookCallbacks)
    IN  IF W.mgr.orderBookCallbacks \cap UnregisteringCallbacks # {} /\ W.mgr.connectors # <<>>
        THEN [P EXCEPT !.calling = TRUE, !.owed = @ + 1]
        ELSE OpenWindow(P)

\* a manager that never debounces
EmitOrderBookUpdate_NoWindow(W) == EmitNow(W)

EmitOrderBookUpdate(W) ==
    IF W.mgr.debounceTimeout THEN EmitDuringWindow(W) ELSE EmitNow(W)

\* getStatus without the case for RECONNECTING
GetStatus_NoReconnecting(conn, m) ==
    LET by == [x \in SeqToSet(m.connectors) |-> conn[x].status]
        Count(S) == Cardinality({x \in DOMAIN by : by[x] \in S})
    IN  [connectedCount |-> Count({CONNECTED}),
         connectingCount |-> Count({CONNECTING}),
         disconnectedCount |-> Count({DISCONNECTED}),
         errorCount |-> Count({ERROR}),
         byExchange |-> by]

\* getStatus
GetStatus(conn, m) ==
    LET by == [x \in SeqToSet(m.connectors) |-> conn[x].status]
        Count(S) == Cardinality({x \in DOMAIN by : by[x] \in S})
    IN  [connectedCount |-> Count({CONNECTED}),
         connectingCount |-> Count({CONNECTING, RECONNECTING}),
         disconnectedCount |-> Count({DISCONNECTED}),
         errorCount |-> Count({ERROR}),
         byExchange |-> by]

EmitStatusUpdate(W) ==
    InvokeAll([W EXCEPT !.stPub = @ + 1, !.status = <<GetStatus(W.conn, W.mgr)>>],
              "status", W.mgr.statusCallbacks)

\* the ManagerError _handleConnectorEvent builds from an ERROR event
ManagerError(e) == [exchange |-> e.exchange, message |-> e.message, error |-> e.error]

\* an _emitError that waits for the debounce window, as the consolidated
\* publish does
EmitError_Debounced(W, err) ==
    IF W.mgr.debounceTimeout THEN [W EXCEPT !.mgr.pendingUpdate = TRUE]
    ELSE InvokeAll([W EXCEPT !.errPub = @ + 1, !.errors = Append(@, err)],
                   "error", W.mgr.errorCallbacks)

\* _emitError
EmitError(W, err) ==
    InvokeAll([W EXCEPT !.errPub = @ + 1, !.errors = Append(@, err)],
              "error", W.mgr.errorCallbacks)

\* a handler that holds status events back while a debounce window is open
HandleConnectorEvent_StatusDebounced(W, e) ==
    CASE e.type = ORDER_BOOK_UPDATE ->
            EmitOrderBookUpdate(
                [W EXCEPT !.mgr.orderBooks[e.data[1].exchange] = e.data,
                          !.mgr.windowEvents =
                              IF W.mgr.debounceTimeout THEN Min(@ + 1, 2) ELSE @])
      [] e.type = STATUS_CHANGE -> IF W.mgr.debounceTimeout THEN W ELSE EmitStatusUpdate(W)
      [] e.type = ERROR_EVENT -> EmitError(W, ManagerError(e))

\* _handleConnectorEvent.  windowEvents is an observation, not a field of the
\* manager: the ORDER_BOOK_UPDATE events received since the open debounce
\* window was opened (0, 1, or 2 for "two or more").
HandleConnectorEvent(W, e) ==
    CASE e.type = ORDER_BOOK_UPDATE ->
            EmitOrderBookUpdate(
                [W EXCEPT !.mgr.orderBooks[e.data[1].exchange] = e.data,
                          !.mgr.windowEvents =
                              IF W.mgr.debounceTimeout THEN Min(@ + 1, 2) ELSE @])
      [] e.type = STATUS_CHANGE -> EmitStatusUpdate(W)
      [] e.type = ERROR_EVENT -> EmitError(W, ManagerError(e))

-----------------------------------------------------------------------------
(* Connectors: private methods (the three classes share this code)         *)

\* _emit: every listener of the connector is called with the event; the only
\* listener the program ever registers is the manager's handler
Emit(W, c, e) ==
    LET W1 == InvokeAll([W EXCEPT !.ev = Append(@, e)], "connector", W.conn[c].listeners)
    IN  IF "manager" \in W.conn[c].listeners
        THEN HandleConnectorEvent(W1, e)
        ELSE W1

SetStatus(W, c, s) ==
    IF W.conn[c].status = s
    THEN W
    ELSE Emit([W EXCEPT !.conn[c].status = s], c, StatusEvent(s))

ClearReconnectTimeout(W, c) == [W EXCEPT !.conn[c].reconnectTimeout = <<>>]

ClearPingInterval(W, c) == [W EXCEPT !.conn[c].pingInterval = FALSE]

\* baseDelay * Math.pow(multiplier, attempts - 1), multiplier = backoffMultiplier || 1
ReconnectDelay(rc, attempts) ==
    LET multiplier == IF rc.backoffMultiplier[1] = 0 THEN <<1, 1>>
                      ELSE rc.backoffMultiplier
    IN  <<rc.delayMs * Pow(multiplier[1], attempts - 1), Pow(multiplier[2], attempts - 1)>>

\* setTimeout(() => this.connect(), delay): the handle is overwritten, an
\* earlier timer that has not fired yet stays pending without a handle
SetReconnectTimer(W, c, delay) ==
    [W EXCEPT !.conn[c].leakedTimers =
                  IF W.conn[c].reconnectTimeout # <<>>
                  THEN @ (+) SetToBag({W.conn[c].reconnectTimeout[1]})
                  ELSE @,
              !.conn[c].reconnectTimeout = <<delay>>,
              !.sched = Append(@, delay)]

ScheduleReconnect(W, c) ==
    LET rc == W.conn[c].config.reconnect IN
    IF ~rc.enabled THEN W
    ELSE IF rc.maxAttempts > 0 /\ W.conn[c].reconnectAttempts >= rc.maxAttempts
    THEN SetStatus(W, c, ERROR)
    ELSE LET n == W.conn[c].reconnectAttempts + 1
             W1 == [W EXCEPT !.conn[c].reconnectAttempts = n]
         IN  SetReconnectTimer(SetStatus(W1, c, RECONNECTING), c, ReconnectDelay(rc, n))

-----------------------------------------------------------------------------
(* Connectors: public methods and socket callbacks                         *)

HasKeepAlive(c) == c \in {"foxbit", "mercadobitcoin"}

\* the URL of a new socket: the stream of the symbol for Binance, a fixed
\* endpoint for the two other classes
SocketUrl(c, cfg) ==
    CASE c = "binance" ->
            <<"wss://stream.binance.com:9443/ws/", toExchangeSymbol(cfg.symbol, "binance"),
              "@depth20@100ms">>
      [] c = "mercadobitcoin" -> <<"wss://ws.mercadobitcoin.net/ws">>
      [] c = "foxbit" -> <<"wss://api.foxbit.com.br/ws/v3/public">>

\* identity of the promise a connect() call awaits: the least unused one
NewWait(waits) ==
    CHOOSE i \in 1..(Cardinality(waits) + 1) :
        i \notin waits /\ \A j \in 1..(i - 1) : j \in waits

\* connect() without its guard on the status
ConnectCall_NoGuard(W, c) ==
    LET W1 == SetStatus(W, c, CONNECTING)
        old == W.conn[c].ws
    IN  [W1 EXCEPT !.conn[c].ws = WS_CONNECTING,
                   !.conn[c].url = SocketUrl(c, W.conn[c].config),
                   !.conn[c].orphConn = IF old = WS_CONNECTING THEN @ + 1 ELSE @,
                   !.conn[c].orphOpen = IF old = WS_OPEN THEN @ + 1 ELSE @,
                   !.conn[c].connectWaits = @ \cup {NewWait(@)}]

\* connect() up to its await: the guard, the new socket with its four
\* callbacks, the promise holding the 10 s timeout and the 100 ms status poll.
\* The socket this._ws referred to keeps its callbacks; only the reference is
\* replaced.
ConnectCall(W, c) ==
    IF W.conn[c].status \in {CONNECTED, CONNECTING} THEN W
    ELSE LET W1 == SetStatus(W, c, CONNECTING)
             old == W.conn[c].ws
         IN  [W1 EXCEPT !.conn[c].ws = WS_CONNECTING,
                        !.conn[c].url = SocketUrl(c, W.conn[c].config),
                        !.conn[c].orphConn = IF old = WS_CONNECTING THEN @ + 1 ELSE @,
                        !.conn[c].orphOpen = IF old = WS_OPEN THEN @ + 1 ELSE @,
                        !.conn[c].connectWaits = @ \cup {NewWait(@)}]

\* a catch block that reports the error and schedules nothing
CatchConnect_NoReconnect(W, c) == SetStatus(W, c, ERROR)

\* the catch block of connect(): the awaited promise was rejected
CatchConnect(W, c) == ScheduleReconnect(SetStatus(W, c, ERROR), c)

\* disconnect(): the reconnect timer the handle names is cleared, the socket
\* this._ws names loses its callbacks and is closed
DisconnectCall(W, c) ==
    LET W1 == ClearReconnectTimeout(W, c)
        W2 == IF HasKeepAlive(c) THEN ClearPingInterval(W1, c) ELSE W1
        W3 == IF HasKeepAlive(c) /\ W2.conn[c].ws = WS_OPEN
              THEN [W2 EXCEPT !.sent = Append(@, <<"unsubscribe", toExchangeSymbol(W2.conn[c].config.symbol, c)>>)]
              ELSE W2
        W4 == [W3 EXCEPT !.conn[c].ws = NoSocket,
                         !.conn[c].url = <<>>,
                         !.conn[c].bidsMap = IF c = "foxbit" THEN <<>> ELSE @,
                         !.conn[c].asksMap = IF c = "foxbit" THEN <<>> ELSE @]
        W5 == SetStatus(W4, c, DISCONNECTED)
    IN  [W5 EXCEPT !.conn[c].orderBook = <<>>,
                   !.conn[c].reconnectAttempts = 0,
                   !.conn[c].attemptNo = 0,
                   !.conn[c].manualRetry = FALSE]

\* {...this._config, ...config}
MergeConfig(cfg, partial) ==
    [k \in DOMAIN cfg |-> IF k \in DOMAIN partial THEN partial[k] ELSE cfg[k]]

\* an updateConfig that merges and leaves the connection as it is
UpdateConfigCall_NoCycle(W, c, partial) ==
    [W EXCEPT !.conn[c].config = MergeConfig(@, partial)]

\* updateConfig, up to the await inside connect()
UpdateConfigCall(W, c, partial) ==
    LET wasConnected == W.conn[c].status = CONNECTED
        W1 == IF wasConnected THEN DisconnectCall(W, c) ELSE W
        W2 == [W1 EXCEPT !.conn[c].config = MergeConfig(@, partial)]
    IN  IF wasConnected THEN ConnectCall(W2, c) ELSE W2

\* _subscribeToOrderbook: a frame only if this._ws is open
SubscribeToOrderbook(W, c) ==
    IF W.conn[c].ws = WS_OPEN
    THEN [W EXCEPT !.sent = Append(@, <<"subscribe", toExchangeSymbol(W.conn[c].config.symbol, c)>>)]
    ELSE W

StartPingInterval(W, c) == [W EXCEPT !.conn[c].pingInterval = TRUE]

\* _handleOpen, up to the first await of the FoxBit variant
HandleOpen(W, c) ==
    LET W1 == SetStatus(W, c, CONNECTED)
        W2 == [W1 EXCEPT !.conn[c].reconnectAttempts = 0,
                         !.conn[c].attemptNo = 0, !.conn[c].manualRetry = FALSE]
    IN  CASE c = "binance" -> W2
          [] c = "mercadobitcoin" -> StartPingInterval(SubscribeToOrderbook(W2, c), c)
          [] c = "foxbit" -> [W2 EXCEPT !.conn[c].fetches = @ + 1]

HandleError(W, c) == Emit(W, c, SocketFailure(c))

\* a close handler that schedules no reconnect
HandleClose_NoReconnect(W, c) ==
    LET W1 == IF HasKeepAlive(c) THEN ClearPingInterval(W, c) ELSE W
    IN  IF W1.conn[c].status # DISCONNECTED
        THEN SetStatus(W1, c, DISCONNECTED)
        ELSE W1

HandleClose(W, c) ==
    LET W1 == IF HasKeepAlive(c) THEN ClearPingInterval(W, c) ELSE W
    IN  IF W1.conn[c].status # DISCONNECTED
        THEN ScheduleReconnect(SetStatus(W1, c, DISCONNECTED), c)
        ELSE W1

\* the book is cached and emitted
CacheAndEmit(W, c, book) ==
    LET b == ApplyDepth(book, W.conn[c].config)
    IN  Emit([W EXCEPT !.conn[c].orderBook = <<b>>], c, BookEvent(b))

\* FoxBit _buildAndEmitOrderBook: the maps' entries, sorted, parsed, trimmed
BuildAndEmitOrderBook(W, c) ==
    CacheAndEmit(W, c,
        [exchange |-> c, symbol |-> W.conn[c].config.symbol,
         bids |-> ParseLevels(SortPairs(W.conn[c].bidsMap, TRUE)),
         asks |-> ParseLevels(SortPairs(W.conn[c].asksMap, FALSE))])

\* an entry that is added to the levels the side holds
ApplyEntry_Additive(m, e) == IF e[2] = "0" THEN MapDelete(m, e[1]) ELSE Append(m, e)

\* one [price, quantity] entry of a FoxBit diff applied to one side's map
ApplyEntry(m, e) == IF e[2] = "0" THEN MapDelete(m, e[1]) ELSE MapSet(m, e[1], e[2])

RECURSIVE ApplyEntries(_, _)
ApplyEntries(m, es) ==
    IF es = <<>> THEN m ELSE ApplyEntries(ApplyEntry(m, Head(es)), Tail(es))

\* FoxBit _processOrderbookData
ProcessOrderbookData(W, c, data) ==
    BuildAndEmitOrderBook(
        [W EXCEPT !.conn[c].bidsMap = ApplyEntries(@, data.bids),
                  !.conn[c].asksMap = ApplyEntries(@, data.asks)], c)

\* one entry of the REST snapshot seeded into a map: "0" quantities are skipped
SeedEntry(m, e) == IF e[2] # "0" THEN MapSet(m, e[1], e[2]) ELSE m

RECURSIVE SeedEntries(_, _)
SeedEntries(m, es) ==
    IF es = <<>> THEN m ELSE SeedEntries(SeedEntry(m, Head(es)), Tail(es))

\* _handleMessage of the three classes; msg.kind is what the frame parses to:
\* "garbage" makes the handler throw before it has changed anything (no JSON,
\* or a field of the wrong shape), "partial" is a book frame whose bids are
\* well formed and whose asks make the handler throw, "other" is a frame of a
\* type the handler skips, "error" is an error frame of the server
HandleMessage(W, c, msg) ==
    CASE msg.kind = "garbage" -> Emit(W, c, ParseFailure(c))
      [] msg.kind = "partial" ->
            IF c = "foxbit"
            THEN Emit([W EXCEPT !.conn[c].bidsMap = ApplyEntries(@, msg.bids)], c, ParseFailure(c))
            ELSE Emit(W, c, ParseFailure(c))
      [] msg.kind = "other" -> W
      [] msg.kind = "error" -> IF c = "binance" THEN W ELSE Emit(W, c, ServerFailure(c))
      [] msg.kind = "book" ->
            CASE c = "binance" ->
                    CacheAndEmit(W, c,
                        [exchange |-> c, symbol |-> W.conn[c].config.symbol,
                         bids |-> ParseLevels(msg.bids), asks |-> ParseLevels(msg.asks)])
              [] c = "mercadobitcoin" ->
                    CacheAndEmit(W, c,
                        [exchange |-> c, symbol |-> W.conn[c].config.symbol,
                         bids |-> [i \in 1..Len(msg.bids) |->
                                    [price |-> msg.bids[i][1], quantity |-> msg.bids[i][2]]],
                         asks |-> [i \in 1..Len(msg.asks) |->
                                    [price |-> msg.asks[i][1], quantity |-> msg.asks[i][2]]]])
              [] c = "foxbit" -> ProcessOrderbookData(W, c, msg)

\* the rest of FoxBit's _handleOpen once the REST fetch has settled
AfterFetch(W, c, res) ==
    LET W0 == [W EXCEPT !.conn[c].fetches = @ - 1]
        W1 == IF res.kind = "fail" THEN Emit(W0, c, FetchFailure(c))
              ELSE BuildAndEmitOrderBook(
                      [W0 EXCEPT !.conn[c].bidsMap = SeedEntries(<<>>, res.bids),
                                 !.conn[c].asksMap = SeedEntries(<<>>, res.asks)], c)
    IN  StartPingInterval(SubscribeToOrderbook(W1, c), c)

-----------------------------------------------------------------------------
(* OrderBookManager: public methods                                        *)

Registered(m) == SeqToSet(m.connectors)

\* a registerConnector without the check for an id already registered
RegisterCall_NoGuard(W, c) ==
    EmitStatusUpdate(
        [W EXCEPT !.mgr.connectors = IF c \in Registered(W.mgr) THEN @ ELSE Append(@, c),
                  !.conn[c].listeners = @ \cup {"manager"},
                  !.mgr.unsubscribers = @ \cup {c}])

\* registerConnector
RegisterCall(W, c) ==
    IF c \in Registered(W.mgr) THEN W
    ELSE EmitStatusUpdate(
            [W EXCEPT !.mgr.connectors = Append(@, c),
                      !.conn[c].listeners = @ \cup {"manager"},
                      !.mgr.unsubscribers = @ \cup {c}])

\* an unsubscribe closure that leaves the handler in the listener set
UnsubscribeConnector_Keep(W, c) == W

\* the closure connector.on() returned to the manager
UnsubscribeConnector(W, c) == [W EXCEPT !.conn[c].listeners = @ \ {"manager"}]

\* an unregisterConnector that leaves the subscription to the connector
UnregisterCall_KeepSubscription(W, x) ==
    IF x \notin Registered(W.mgr) THEN W
    ELSE LET W1 == IF W.conn[x].status = CONNECTED THEN DisconnectCall(W, x) ELSE W
             W3 == [W1 EXCEPT !.mgr.connectors = SelectSeq(@, LAMBDA y : y # x),
                              !.mgr.orderBooks[x] = <<>>]
         IN  EmitOrderBookUpdate(EmitStatusUpdate(W3))

\* unregisterConnector
UnregisterCall(W, x) ==
    IF x \notin Registered(W.mgr) THEN W
    ELSE LET W1 == IF W.conn[x].status = CONNECTED THEN DisconnectCall(W, x) ELSE W
             W2 == IF x \in W1.mgr.unsubscribers
                   THEN [UnsubscribeConnector(W1, x) EXCEPT !.mgr.unsubscribers = @ \ {x}]
                   ELSE W1
             W3 == [W2 EXCEPT !.mgr.connectors = SelectSeq(@, LAMBDA y : y # x),
                              !.mgr.orderBooks[x] = <<>>]
         IN  EmitOrderBookUpdate(EmitStatusUpdate(W3))

\* the calls the publishes of the handler have left: callback 0 calls
\* unregisterConnector from inside the loop of _emitOrderBookUpdate, and
\* each publish sets its timer once its loop has ended.  The handlers that
\* publish the consolidated book (a frame of Binance or MercadoBitcoin,
\* unregisterConnector, the debounce timer) end with the publish, so
\* nothing of the handler runs in between; callback 0 is subscribed to
\* managers of connectors of these two classes.
RECURSIVE Reenter(_)
Reenter(W) ==
    IF W.calling
    THEN LET W1 == [W EXCEPT !.calling = FALSE]
         IN  Reenter(IF W.mgr.connectors = <<>> THEN W1
                     ELSE UnregisterCall(W1, Head(W.mgr.connectors)))
    ELSE IF W.owed > 0 THEN Reenter(OpenWindow([W EXCEPT !.owed = @ - 1]))
    ELSE W

\* the loop of connectAll: connect() on every connector found disconnected
RECURSIVE ConnectEach(_, _)
ConnectEach(W, q) ==
    IF q = <<>> THEN W
    ELSE ConnectEach(IF W.conn[Head(q)].status = DISCONNECTED
                     THEN ConnectCall(W, Head(q)) ELSE W, Tail(q))

\* the connect() promises a step has created: <<connector, id>>
StartedWaits(W, W1) ==
    UNION {{<<c, i>> : i \in W1.conn[c].connectWaits \ W.conn[c].connectWaits} :
                c \in DOMAIN W.conn}

\* connect().catch(log): a rejection is logged, the promise pushed is fulfilled
CatchLogged(outcome) == IF outcome = "rejected" THEN "fulfilled" ELSE outcome

\* Promise.allSettled(promises): pending until each promise has settled, then
\* fulfilled whatever the outcomes
AllSettled(outcomes) == IF "pending" \in outcomes THEN "pending" ELSE "fulfilled"

\* the promise connectAll() returned, for the call the model follows
ConnectAllPromise(m) == AllSettled({CatchLogged(m.awaited[p]) : p \in DOMAIN m.awaited})

\* a connectAll that awaits each connect() before it calls the next
ConnectAllCall_OneByOne(W) ==
    LET dis == SelectSeq(W.mgr.connectors, LAMBDA c : W.conn[c].status = DISCONNECTED)
        W1 == ConnectEach(W, IF dis = <<>> THEN <<>> ELSE <<Head(dis)>>)
    IN  IF ConnectAllPromise(W.mgr) = "pending" THEN W1
        ELSE [W1 EXCEPT !.mgr.awaited = [p \in StartedWaits(W, W1) |-> "pending"]]

\* connectAll up to its await.  awaited is an observation, not a field of the
\* manager: the outcome of every connect() of one call of connectAll(), the
\* first since the call followed before has completed.
ConnectAllCall(W) ==
    LET W1 == ConnectEach(W, W.mgr.connectors)
    IN  IF ConnectAllPromise(W.mgr) = "pending" THEN W1
        ELSE [W1 EXCEPT !.mgr.awaited = [p \in StartedWaits(W, W1) |-> "pending"]]

\* disconnectAll
RECURSIVE DisconnectEach(_, _)
DisconnectEach(W, q) ==
    IF q = <<>> THEN W
    ELSE DisconnectEach(IF W.conn[Head(q)].status # DISCONNECTED
                        THEN DisconnectCall(W, Head(q)) ELSE W, Tail(q))

DisconnectAllCall(W) == DisconnectEach(W, W.mgr.connectors)

RECURSIVE UnsubscribeEach(_, _)
UnsubscribeEach(W, S) ==
    IF S = {} THEN W
    ELSE LET x == CHOOSE y \in S : TRUE
         IN  UnsubscribeEach(UnsubscribeConnector(W, x), S \ {x})

\* a destroy that leaves the subscriptions to the connectors in place
DestroyCall_KeepSubscriptions(W) ==
    LET W1 == [W EXCEPT !.mgr.debounceTimeout = FALSE, !.mgr.windowEvents = 0, !.mgr.windowCalls = FALSE]
        W2 == DisconnectAllCall(W1)
    IN  [W2 EXCEPT !.mgr.connectors = <<>>,
                   !.mgr.orderBooks = [x \in Exchanges |-> <<>>],
                   !.mgr.unsubscribers = {},
                   !.mgr.orderBookCallbacks = {},
                   !.mgr.statusCallbacks = {},
                   !.mgr.errorCallbacks = {},
                   !.mgr.destroyed = TRUE,
                   !.mgr.destroyedWith = @ \cup Registered(W.mgr)]

\* destroy
DestroyCall(W) ==
    LET W1 == [W EXCEPT !.mgr.debounceTimeout = FALSE, !.mgr.windowEvents = 0, !.mgr.windowCalls = FALSE]
        W2 == DisconnectAllCall(W1)
        W3 == UnsubscribeEach(W2, W2.mgr.unsubscribers)
    IN  [W3 EXCEPT !.mgr.connectors = <<>>,
                   !.mgr.orderBooks = [x \in Exchanges |-> <<>>],
                   !.mgr.unsubscribers = {},
                   !.mgr.orderBookCallbacks = {},
                   !.mgr.statusCallbacks = {},
                   !.mgr.errorCallbacks = {},
                   !.mgr.destroyed = TRUE,
                   !.mgr.destroyedWith = @ \cup Registered(W.mgr)]

\* a timer callback that closes the window and forgets the publish owed
DebounceCallback_Forget(W) ==
    [W EXCEPT !.mgr.debounceTimeout = FALSE, !.mgr.windowEvents = 0, !.mgr.windowCalls = FALSE,
              !.mgr.pendingUpdate = FALSE]

\* the callback of the debounce timer
DebounceCallback(W) ==
    LET W1 == [W EXCEPT !.mgr.debounceTimeout = FALSE, !.mgr.windowEvents = 0, !.mgr.windowCalls = FALSE]
    IN  IF W1.mgr.pendingUpdate
        THEN EmitOrderBookUpdate([W1 EXCEPT !.mgr.pendingUpdate = FALSE])
        ELSE W1

\* the same callback, run by a timer whose handle was overwritten: it clears
\* _debounceTimeout all the same, and the timer that field referred to stays
\* pending without a handle
LeakedDebounceCallback(W) ==
    DebounceCallback(
        [W EXCEPT !.mgr.leakedDebounce = IF W.mgr.debounceTimeout THEN @ ELSE @ - 1])

-----------------------------------------------------------------------------
(* Steps                                                                   *)

Pending(o) ==
    Cardinality(o.connectWaits) + Len(o.reconnectTimeout) + BagCardinality(o.leakedTimers)

\* the bounds of the model, on the state a step would produce
Fits(W) ==
    \A c \in DOMAIN W.conn :
        /\ Pending(W.conn[c]) <= MaxPending
        /\ W.conn[c].orphConn + W.conn[c].orphOpen <= MaxOrphans
        /\ W.conn[c].fetches <= MaxFetch
        /\ W.mgr.leakedDebounce <= MaxLeaked

\* what the step is recorded as: who ran, on which connector, what that
\* connector's status and the debounce window were before, what came out
Observe(act, c, W, fired) ==
    [act |-> act, c |-> c,
     prev |-> IF c \in DOMAIN connector THEN connector[c].status ELSE "",
     preTimer |-> manager.debounceTimeout,
     preWindowEvents |-> manager.windowEvents,
     fired |-> fired,
     ev |-> W.ev, sent |-> W.sent, sched |-> W.sched,
     obPub |-> W.obPub, stPub |-> W.stPub, errPub |-> W.errPub, inv |-> W.inv,
     status |-> W.status, errors |-> W.errors, books |-> W.books,
     calls |-> W.calls, caught |-> W.caught]

Step(act, c, W, fired) ==
    /\ Fits(W)
    /\ connector' = W.conn
    /\ manager' = W.mgr
    /\ last' = Observe(act, c, W, fired)

Instances == DOMAIN connector

\* inbound frames, as what they parse to
Messages(c) ==
    CASE c = "binance" ->
            {[kind |-> "garbage", bids |-> <<>>, asks |-> <<>>],
             [kind |-> "other", bids |-> <<>>, asks |-> <<>>],
             [kind |-> "error", bids |-> <<>>, asks |-> <<>>],
             [kind |-> "book", bids |-> <<<<"100", "1">>>>, asks |-> <<<<"101", "2">>>>]}
      [] c = "foxbit" ->
            {[kind |-> "garbage", bids |-> <<>>, asks |-> <<>>],
             [kind |-> "partial", bids |-> <<<<"100", "1">>>>, asks |-> <<>>],
             [kind |-> "error", bids |-> <<>>, asks |-> <<>>],
             [kind |-> "book", bids |-> <<<<"100", "1">>>>, asks |-> <<>>],
             [kind |-> "book", bids |-> <<<<"100", "0">>>>, asks |-> <<>>]}
      [] c = "mercadobitcoin" ->
            {[kind |-> "garbage", bids |-> <<>>, asks |-> <<>>],
             [kind |-> "error", bids |-> <<>>, asks |-> <<>>],
             [kind |-> "book", bids |-> <<<<100, 1>>>>, asks |-> <<<<101, 2>>>>]}

\* outcomes of FoxBit's REST snapshot fetch
FetchResults ==
    {[kind |-> "fail", bids |-> <<>>, asks |-> <<>>],
     [kind |-> "ok", bids |-> <<<<"100", "2">>>>, asks |-> <<<<"101", "1">>>>]}

(* --- a client calls a connector --- *)

\* manualRetry observes that the client called connect() on a Reconnecting or
\* Errored connector since the last CONNECTED or disconnect()
Connect(c) ==
    Step("connect", c,
         [ConnectCall(World, c) EXCEPT
            !.conn[c].manualRetry = @ \/ connector[c].status \in {RECONNECTING, ERROR}],
         <<>>)

Disconnect(c) == Step("disconnect", c, DisconnectCall(World, c), <<>>)

UpdateConfig(c, partial) ==
    Step("updateConfig", c, UpdateConfigCall(World, c, partial), <<>>)

\* on(listener): a client registers a listener of its own with the connector
ListenConnector(c) ==
    Step("on", c, [World EXCEPT !.conn[c].listeners = @ \cup {"client"}], <<>>)

(* --- the sockets --- *)

\* the socket this._ws names opens
SocketOpen(c) ==
    /\ connector[c].ws = WS_CONNECTING
    /\ Step("open", c, HandleOpen([World EXCEPT !.conn[c].ws = WS_OPEN], c), <<>>)

\* a socket of an earlier attempt opens
OrphanOpen(c) ==
    /\ connector[c].orphConn > 0
    /\ Step("orphanOpen", c,
            HandleOpen([World EXCEPT !.conn[c].orphConn = @ - 1,
                                     !.conn[c].orphOpen = @ + 1], c), <<>>)

\* the socket this._ws names fails to connect (error, then close) or, once
\* open, is closed by the peer or the network (with or without an error)
SocketClose(c, withError) ==
    /\ connector[c].ws \in {WS_CONNECTING, WS_OPEN}
    /\ connector[c].ws = WS_CONNECTING => withError
    /\ LET W0 == [World EXCEPT !.conn[c].ws = WS_CLOSED]
           W1 == IF withError THEN HandleError(W0, c) ELSE W0
       IN  Step("close", c, HandleClose(W1, c), <<>>)

\* the same for a socket of an earlier attempt
OrphanClose(c, wasOpen) ==
    /\ IF wasOpen THEN connector[c].orphOpen > 0 ELSE connector[c].orphConn > 0
    /\ LET W0 == IF wasOpen THEN [World EXCEPT !.conn[c].orphOpen = @ - 1]
                 ELSE [World EXCEPT !.conn[c].orphConn = @ - 1]
           W1 == IF wasOpen THEN W0 ELSE HandleError(W0, c)
       IN  Step("orphanClose", c, HandleClose(W1, c), <<>>)

\* a frame arrives on an open socket whose onmessage is _handleMessage
SocketMessage(c, msg) ==
    /\ connector[c].ws = WS_OPEN \/ connector[c].orphOpen > 0
    /\ Step("message", c, Reenter(HandleMessage(World, c, msg)), <<>>)

(* --- timers and continuations of a connector --- *)

\* the promise connect() awaits is settled: its poll and its timer are over
ClearWait(W, c, i) == [W EXCEPT !.conn[c].connectWaits = @ \ {i}]

\* the promise connect() returned settles: resolve() in the poll lets the
\* function return, reject() runs the catch block, which throws again
SettleConnect(W, c, i, outcome) ==
    LET W1 == ClearWait(W, c, i)
    IN  IF <<c, i>> \in DOMAIN W1.mgr.awaited /\ W1.mgr.awaited[<<c, i>>] = "pending"
        THEN [W1 EXCEPT !.mgr.awaited[<<c, i>>] = outcome]
        ELSE W1

\* checkConnection finds the status CONNECTED (resolve) or ERROR (reject)
PollConnection(c, i) ==
    /\ i \in connector[c].connectWaits
    /\ connector[c].status \in {CONNECTED, ERROR}
    /\ IF connector[c].status = CONNECTED
       THEN Step("pollResolve", c, SettleConnect(World, c, i, "fulfilled"), <<>>)
       ELSE Step("pollReject", c,
                 SettleConnect(CatchConnect(ClearWait(World, c, i), c), c, i, "rejected"), <<>>)

\* the 10 s timer of a pending connect() fires
ConnectTimeout(c, i) ==
    /\ i \in connector[c].connectWaits
    /\ Step("connectTimeout", c,
            SettleConnect(CatchConnect(ClearWait(World, c, i), c), c, i, "rejected"), <<>>)

\* connect() as the reconnect timer calls it; attemptNo observes the
\* reconnect attempts started since the last CONNECTED or disconnect()
TimerConnect(W, c) ==
    IF W.conn[c].status \in {CONNECTED, CONNECTING} THEN W
    ELSE [ConnectCall(W, c) EXCEPT !.conn[c].attemptNo = @ + 1]

\* the reconnect timer the handle names fires; a timer set earlier with a
\* delay no longer than this one has fired before it
ReconnectTimer(c) ==
    /\ connector[c].reconnectTimeout # <<>>
    /\ \A d \in BagToSet(connector[c].leakedTimers) :
            ~RatLeq(d, connector[c].reconnectTimeout[1])
    /\ Step("reconnectTimer", c,
            TimerConnect([World EXCEPT !.conn[c].reconnectTimeout = <<>>], c),
            connector[c].reconnectTimeout)

\* a reconnect timer whose handle was overwritten fires
LeakedReconnectTimer(c, d) ==
    /\ BagIn(d, connector[c].leakedTimers)
    /\ Step("leakedReconnectTimer", c,
            TimerConnect([World EXCEPT !.conn[c].leakedTimers = @ (-) SetToBag({d})], c),
            <<d>>)

\* FoxBit: the REST fetch _handleOpen awaits has settled
FetchDone(c, res) ==
    /\ connector[c].fetches > 0
    /\ Step("fetchDone", c, AfterFetch(World, c, res), <<>>)

\* the 20 s keep-alive interval fires
PingTick(c) ==
    /\ connector[c].pingInterval
    /\ Step("ping", c,
            IF connector[c].ws = WS_OPEN THEN [World EXCEPT !.sent = Append(@, <<"ping", <<>>>>)]
            ELSE World, <<>>)

(* --- a client calls the manager --- *)

\* destroyedWith observes the connectors that were registered when destroy()
\* was called and have not been registered again since
RegisterConnector(c) ==
    Step("register", c,
         [RegisterCall(World, c) EXCEPT !.mgr.destroyed = FALSE,
                                        !.mgr.destroyedWith = @ \ {c}], <<>>)

UnregisterConnector(x) == Step("unregister", x, Reenter(UnregisterCall(World, x)), <<>>)

ConnectAll == Step("connectAll", "", ConnectAllCall(World), <<>>)

DisconnectAll == Step("disconnectAll", "", DisconnectAllCall(World), <<>>)

Destroy == Step("destroy", "", DestroyCall(World), <<>>)

CallbackIds == 1..MaxCallbacks

ListenerIds == 1..(MaxCallbacks + 1)

OnOrderBookUpdate(cb) ==
    Step("onOrderBookUpdate", "",
         [World EXCEPT !.mgr.orderBookCallbacks = @ \cup {cb}, !.mgr.destroyed = FALSE], <<>>)

OnStatusUpdate(cb) ==
    Step("onStatusUpdate", "",
         [World EXCEPT !.mgr.statusCallbacks = @ \cup {cb}, !.mgr.destroyed = FALSE], <<>>)

OnError(cb) ==
    Step("onError", "",
         [World EXCEPT !.mgr.errorCallbacks = @ \cup {cb}, !.mgr.destroyed = FALSE], <<>>)

\* the closures the three subscriptions return
Unlisten(set, cb) ==
    Step("unlisten", "",
         CASE set = "orderBook" -> [World EXCEPT !.mgr.orderBookCallbacks = @ \ {cb}]
           [] set = "status" -> [World EXCEPT !.mgr.statusCallbacks = @ \ {cb}]
           [] set = "error" -> [World EXCEPT !.mgr.errorCallbacks = @ \ {cb}], <<>>)

(* --- the manager's timer --- *)

\* timers of one delay fire in the order they were set: the timers without a
\* handle were set before the one _debounceTimeout refers to
DebounceTimer ==
    /\ manager.debounceTimeout
    /\ manager.leakedDebounce = 0
    /\ Step("debounceTimer", "", Reenter(DebounceCallback(World)), <<>>)

LeakedDebounceTimer ==
    /\ manager.leakedDebounce > 0
    /\ Step("leakedDebounceTimer", "", Reenter(LeakedDebounceCallback(World)), <<>>)

-----------------------------------------------------------------------------
(* Construction                                                            *)

\* reconnect policies a connector is constructed with; the provider passes
\* {enabled: true, maxAttempts: 5, delayMs: 1000, backoffMultiplier: 1.5}
ReconnectConfigs ==
    {[enabled |-> FALSE, maxAttempts |-> 1, delayMs |-> 1000, backoffMultiplier |-> <<3, 2>>]}
    \cup {[enabled |-> TRUE, maxAttempts |-> m, delayMs |-> 1000,
           backoffMultiplier |-> <<3, 2>>] : m \in 1..MaxAttemptsCfg}

ConnectorConfigs ==
    {[symbol |-> "BTC/USDT", depth |-> 20, reconnect |-> rc] : rc \in ReconnectConfigs}

\* the fields of a connector after its constructor
NewConnector(cfg) ==
    [status |-> DISCONNECTED, orderBook |-> <<>>, config |-> cfg,
     ws |-> NoSocket, url |-> <<>>, orphConn |-> 0, orphOpen |-> 0,
     listeners |-> {}, reconnectAttempts |-> 0,
     reconnectTimeout |-> <<>>, leakedTimers |-> EmptyBag,
     pingInterval |-> FALSE, bidsMap |-> <<>>, asksMap |-> <<>>,
     connectWaits |-> {}, fetches |-> 0, attemptNo |-> 0, manualRetry |-> FALSE]

\* the fields of the manager after its constructor
NewManager(cfg) ==
    [connectors |-> <<>>, orderBooks |-> [x \in Exchanges |-> <<>>],
     unsubscribers |-> {}, config |-> cfg,
     orderBookCallbacks |-> {}, statusCallbacks |-> {}, errorCallbacks |-> {},
     debounceTimeout |-> FALSE, leakedDebounce |-> 0, pendingUpdate |-> FALSE,
     windowEvents |-> 0, windowCalls |-> FALSE, destroyed |-> FALSE, destroyedWith |-> {},
     awaited |-> [p \in {} |-> "pending"]]

NoStep ==
    [act |-> "", c |-> "", prev |-> "", preTimer |-> FALSE, preWindowEvents |-> 0,
     fired |-> <<>>, ev |-> <<>>, sent |-> <<>>, sched |-> <<>>,
     obPub |-> 0, stPub |-> 0, errPub |-> 0, inv |-> 0, status |-> <<>>,
     errors |-> <<>>, books |-> <<>>,
     calls |-> EmptyBag, caught |-> 0]

\* the manager is constructed with debounceMs 100 (the default and the
\* provider's value) or with 0, which switches debouncing off
DebounceChoices == {0, 100}

InitWith(I, Cfgs, Ds) ==
    /\ \E cfgs \in [I -> Cfgs] : connector = [c \in I |-> NewConnector(cfgs[c])]
    /\ \E d \in Ds : manager = NewManager([debounceMs |-> d])
    /\ last = NoStep

-----------------------------------------------------------------------------
(* Spec: a connector of any of the three classes with a client of its own  *)
(* that calls connect() and disconnect(); no manager listens.              *)

Init == \E c \in Exchanges : InitWith({c}, ConnectorConfigs, {100})

\* the client's calls
ClientNext ==
    \/ \E c \in Instances : Connect(c)
    \/ \E c \in Instances : Disconnect(c)

\* a connection attempt: its socket, and the poll and the timer of connect()
AttemptNext ==
    \/ \E c \in Instances : SocketOpen(c)
    \/ \E c \in Instances, withError \in BOOLEAN : SocketClose(c, withError)
    \/ \E c \in Instances : \E i \in connector[c].connectWaits : PollConnection(c, i)
    \/ \E c \in Instances : \E i \in connector[c].connectWaits : ConnectTimeout(c, i)

\* sockets of earlier attempts and reconnect timers
RetryNext ==
    \/ \E c \in Instances : OrphanOpen(c)
    \/ \E c \in Instances, wasOpen \in BOOLEAN : OrphanClose(c, wasOpen)
    \/ \E c \in Instances : ReconnectTimer(c)
    \/ \E c \in Instances : \E d \in BagToSet(connector[c].leakedTimers) :
            LeakedReconnectTimer(c, d)

\* inbound frames and the keep-alive interval
DataNext ==
    \/ \E c \in Instances : \E msg \in Messages(c) : SocketMessage(c, msg)
    \/ \E c \in Instances : PingTick(c)

\* FoxBit's REST fetch
FetchNext == \E c \in Instances, res \in FetchResults : FetchDone(c, res)

Next == ClientNext \/ AttemptNext \/ RetryNext \/ DataNext \/ FetchNext

Spec == Init /\ [][Next]_vars

-----------------------------------------------------------------------------
(* SpecFair: the connection life cycle of a Binance connector (no frame    *)
(* arrives), with the timers of connect() firing.                          *)

InitFair == InitWith({"binance"}, ConnectorConfigs, {100})

NextFair == ClientNext \/ AttemptNext \/ RetryNext

\* the ids a pending connect() can have
WaitIds == 1..MaxPending

\* the connect() with this id is pending
ConnectPending(i) == \E c \in Instances : i \in connector[c].connectWaits

\* the 10 s timer of the connect() with this id fires
TimeoutOf(i) == \E c \in Instances : ConnectTimeout(c, i)

\* a timer set with setTimeout and never cleared fires: the 10 s timer of a
\* pending connect() is cleared only by the poll that settles the promise
SpecFair == InitFair /\ [][NextFair]_vars /\ \A i \in WaitIds : WF_vars(TimeoutOf(i))

-----------------------------------------------------------------------------
(* SpecMgr: a manager and a connector its client registers; the client     *)
(* drives the connector through the manager only, the connector is         *)
(* constructed with reconnect disabled.                                     *)

ManagedExchanges == {"binance", "mercadobitcoin"}

ManagedConfigs == {cfg \in ConnectorConfigs : ~cfg.reconnect.enabled}

InitMgr == \E c \in ManagedExchanges : InitWith({c}, ManagedConfigs, DebounceChoices)

ManagerNext ==
    \/ \E c \in Instances : RegisterConnector(c)
    \/ \E c \in Instances : UnregisterConnector(c)
    \/ ConnectAll
    \/ DisconnectAll
    \/ Destroy
    \/ \E cb \in CallbackIds : OnOrderBookUpdate(cb)
    \/ \E cb \in CallbackIds : OnStatusUpdate(cb)
    \/ \E cb \in CallbackIds : OnError(cb)
    \/ \E set \in {"orderBook", "status", "error"}, cb \in CallbackIds : Unlisten(set, cb)
    \/ DebounceTimer

NextMgr == AttemptNext \/ DataNext \/ ManagerNext

SpecMgr == InitMgr /\ [][NextMgr]_vars

-----------------------------------------------------------------------------
(* SpecAll: a manager and two connectors, constructed with reconnect       *)
(* disabled, that the client registers and connects all at once; the       *)
(* timers of connect() fire.                                               *)

InitAll == InitWith(ManagedExchanges, ManagedConfigs, {100})

AllNext ==
    \/ \E c \in Instances : RegisterConnector(c)
    \/ ConnectAll

\* the socket of an attempt opens, fails, or stays silent until the timer of
\* connect() fires
SettleNext ==
    \/ \E c \in Instances : SocketOpen(c)
    \/ \E c \in Instances : \E i \in connector[c].connectWaits : PollConnection(c, i)
    \/ \E c \in Instances : \E i \in connector[c].connectWaits : ConnectTimeout(c, i)

NextAll == AllNext \/ SettleNext

\* the 10 s timer of a pending connect() is cleared only by the poll that
\* settles the promise: it fires
SpecAll ==
    /\ InitAll /\ [][NextAll]_vars
    /\ \A c \in ManagedExchanges : \A i \in WaitIds : WF_vars(ConnectTimeout(c, i))

-----------------------------------------------------------------------------
(* SpecStatus: a manager and two connectors, constructed with one          *)
(* reconnect attempt allowed, that the client registers, unregisters and   *)
(* connects; no frame arrives and no connect() has waited its 10 s yet.    *)

StatusConfigs ==
    {cfg \in ConnectorConfigs : cfg.reconnect.enabled /\ cfg.reconnect.maxAttempts = 1}

InitStatus == InitWith(ManagedExchanges, StatusConfigs, {100})

RegistryNext ==
    \/ \E c \in Instances : RegisterConnector(c)
    \/ \E c \in Instances : UnregisterConnector(c)
    \/ ConnectAll

TimerNext == \E c \in Instances : ReconnectTimer(c)

\* the sockets open and close within the 10 s each connect() waits: neither
\* its poll nor its timer has run yet
SocketNext ==
    \/ \E c \in Instances : SocketOpen(c)
    \/ \E c \in Instances, withError \in BOOLEAN : SocketClose(c, withError)

NextStatus == RegistryNext \/ SocketNext \/ TimerNext

SpecStatus == InitStatus /\ [][NextStatus]_vars

-----------------------------------------------------------------------------
(* SpecView: a manager with error listeners and two connectors,            *)
(* constructed with reconnect disabled, that the client registers in       *)
(* either order and connects; frames arrive and sockets fail within the    *)
(* 10 s each connect() waits.                                              *)

InitView == InitWith(ManagedExchanges, ManagedConfigs, {100})

ViewNext ==
    \/ \E c \in Instances : RegisterConnector(c)
    \/ ConnectAll
    \/ \E cb \in ListenerIds : OnError(cb)
    \/ DebounceTimer

FeedNext ==
    \/ \E c \in Instances : SocketOpen(c)
    \/ \E c \in Instances : SocketClose(c, TRUE)
    \/ \E c \in Instances : \E msg \in Messages(c) : SocketMessage(c, msg)

NextView == ViewNext \/ FeedNext

SpecView == InitView /\ [][NextView]_vars

-----------------------------------------------------------------------------
(* SpecSymbol: a connector of any of the three classes, constructed for    *)
(* one of a few pairs with reconnect disabled, that its client connects    *)
(* and disconnects.                                                        *)

Symbols == {"BTC/USDT", "ETH/USDT", "btc/usdt", "eth-brl", "1inch_usdt"}

SymbolConfigs ==
    {[cfg EXCEPT !.symbol = symbol] : cfg \in ManagedConfigs, symbol \in Symbols}

InitSymbol == \E c \in Exchanges : InitWith({c}, SymbolConfigs, {100})

OpenNext == \E c \in Instances : SocketOpen(c)

NextSymbol == ClientNext \/ OpenNext \/ FetchNext

SpecSymbol == InitSymbol /\ [][NextSymbol]_vars

-----------------------------------------------------------------------------
(* SpecBook: a connector of any of the three classes, constructed with a   *)
(* small depth (with 0 nothing is trimmed), that is connected once         *)
(* and receives order books: frames carrying up to MaxLevels levels on one *)
(* side, in any order, with the prices and quantities spelled as the feed  *)
(* spells them.                                                            *)

BidPrices == {"100", "100.0", "101"}
AskPrices == {"102"}
BidQuantities == {"1", "2", "0"}
AskQuantities == {"1", "0", "0.0"}

\* the sequences of at most n elements of S
SeqsUpTo(S, n) == UNION {[1..k -> S] : k \in 0..n}

\* one side of a frame: [price, quantity] pairs
BidLevels == SeqsUpTo(BidPrices \X BidQuantities, MaxLevels)
AskLevels == SeqsUpTo(AskPrices \X AskQuantities, MaxLevels)

\* MercadoBitcoin's frames carry numbers, the other two feeds strings
AsNumbers(pairs) ==
    [i \in 1..Len(pairs) |-> <<ParseFloat(pairs[i][1]), ParseFloat(pairs[i][2])>>]

BookFrame(c, bids, asks) ==
    [kind |-> "book",
     bids |-> IF c = "mercadobitcoin" THEN AsNumbers(bids) ELSE bids,
     asks |-> IF c = "mercadobitcoin" THEN AsNumbers(asks) ELSE asks]

\* depthUpdate (Binance), orderbook (MercadoBitcoin), snapshot/update (FoxBit)
BookFrames(c) ==
    {BookFrame(c, b, <<>>) : b \in BidLevels} \cup {BookFrame(c, <<>>, a) : a \in AskLevels}

\* outcomes of FoxBit's REST snapshot fetch
BookFetchResults ==
    {[kind |-> "fail", bids |-> <<>>, asks |-> <<>>]}
    \cup {[kind |-> "ok", bids |-> b, asks |-> <<>>] : b \in BidLevels}
    \cup {[kind |-> "ok", bids |-> <<>>, asks |-> a] : a \in AskLevels}

BookConfigs ==
    {[symbol |-> "BTC/USDT", depth |-> d,
      reconnect |-> [enabled |-> FALSE, maxAttempts |-> 1, delayMs |-> 1000,
                     backoffMultiplier |-> <<3, 2>>]] : d \in 0..MaxDepth}

InitBook == \E c \in Exchanges : InitWith({c}, BookConfigs, {100})

FrameNext == \E c \in Instances : \E msg \in BookFrames(c) : SocketMessage(c, msg)

SeedNext == \E c \in Instances, res \in BookFetchResults : FetchDone(c, res)

\* the client connects and the socket opens
LinkNext ==
    \/ \E c \in Instances : Connect(c)
    \/ \E c \in Instances : SocketOpen(c)

NextBook == LinkNext \/ FrameNext \/ SeedNext

SpecBook == InitBook /\ [][NextBook]_vars

-----------------------------------------------------------------------------
(* SpecFetch: a FoxBit connector (reconnect disabled) with a client of its *)
(* own; a REST fetch that was started settles and the keep-alive interval, *)
(* once set, keeps firing.                                                 *)

InitFetch == InitWith({"foxbit"}, ManagedConfigs, {100})

NextFetch == ClientNext \/ AttemptNext \/ DataNext \/ FetchNext

KeepAlive == \E c \in Instances : PingTick(c)

SpecFetch ==
    InitFetch /\ [][NextFetch]_vars /\ WF_vars(FetchNext) /\ WF_vars(KeepAlive)

-----------------------------------------------------------------------------
(* SpecListen: a manager with a Binance connector (reconnect disabled) and *)
(* clients that subscribe callbacks, one of which throws, to the manager's *)
(* three sets and a listener, which throws, to the connector.              *)

InitListen == InitWith({"binance"}, ManagedConfigs, {100})

SubscribeNext ==
    \/ \E c \in Instances : ListenConnector(c)
    \/ \E cb \in ListenerIds : OnOrderBookUpdate(cb)
    \/ \E cb \in ListenerIds : OnStatusUpdate(cb)
    \/ \E cb \in ListenerIds : OnError(cb)

DriveNext ==
    \/ \E c \in Instances : RegisterConnector(c)
    \/ \E c \in Instances : UnregisterConnector(c)
    \/ ConnectAll
    \/ \E c \in Instances : SocketOpen(c)
    \/ \E c \in Instances : \E msg \in Messages(c) : SocketMessage(c, msg)
    \/ DebounceTimer

NextListen == SubscribeNext \/ DriveNext

SpecListen == InitListen /\ [][NextListen]_vars

-----------------------------------------------------------------------------
(* SpecConfig: a connector of any of the three classes (reconnect          *)
(* disabled) whose client connects it and changes its configuration.       *)

\* the arguments of updateConfig: a symbol, a depth, or both
ConfigUpdates ==
    {[symbol |-> "eth-brl"], [symbol |-> "BTC/USDT"], [depth |-> 5],
     [symbol |-> "eth-brl", depth |-> 5]}

InitConfig == \E c \in Exchanges : InitWith({c}, ManagedConfigs, {100})

ConfigNext == \E c \in Instances : \E partial \in ConfigUpdates : UpdateConfig(c, partial)

NextConfig == ClientNext \/ AttemptNext \/ FetchNext \/ ConfigNext

SpecConfig == InitConfig /\ [][NextConfig]_vars

-----------------------------------------------------------------------------
(* Properties                                                              *)

\* the last step emitted this status / a snapshot
EmittedStatus(st) == \E i \in 1..Len(last.ev) : last.ev[i] = StatusEvent(st)
EmittedBook == \E i \in 1..Len(last.ev) : last.ev[i].type = ORDER_BOOK_UPDATE

\* the last step was a connector emitting a snapshot the manager listened to
SnapshotArrived ==
    /\ last.act \in {"message", "fetchDone"}
    /\ EmittedBook
    /\ "manager" \in connector[last.c].listeners

\* the reconnect timers of a connector, with or without a handle
NoReconnectTimer(o) == o.reconnectTimeout = <<>> /\ o.leakedTimers = EmptyBag

\* C1: with debounceMs > 0, a snapshot event that finds no window open is
\* published at once and opens a window; a snapshot event that finds a window
\* open is not published; nothing is published while a window is open; and
\* the close of a window in which N >= 1 snapshot events arrived publishes
\* exactly once.
C1_Debounce ==
    manager.config.debounceMs > 0 =>
        /\ (SnapshotArrived /\ ~last.preTimer) =>
                (last.obPub = 1 /\ manager.debounceTimeout)
        /\ (SnapshotArrived /\ last.preTimer) =>
                (last.obPub = 0 /\ manager.debounceTimeout /\ manager.pendingUpdate)
        /\ (last.preTimer /\ last.act # "debounceTimer") => last.obPub = 0
        /\ (last.act = "debounceTimer" /\ last.preWindowEvents >= 1) => last.obPub = 1

\* a window in which two or more snapshot events arrived has just closed
C1_Witness ==
    last.act = "debounceTimer" /\ last.preWindowEvents = 2 /\ last.obPub = 1

\* C2: a connector that disconnect() left Disconnected with no socket stays
\* so, with no reconnect timer pending, until connect() is called.
C2_DisconnectIsFinal ==
    [][\A c \in Instances :
          (connector[c].status = DISCONNECTED /\ connector[c].ws = NoSocket
              /\ ~(last'.act = "connect" /\ last'.c = c))
          => (connector'[c].status = DISCONNECTED /\ connector'[c].ws = NoSocket
              /\ NoReconnectTimer(connector'[c]))]_vars

\* C3: reconnect enabled, maxAttempts = M > 0: once M reconnect attempts have
\* been made since the last Connected, all by the reconnect timers, and the
\* state is Errored, no reconnect timer is pending.
C3_NoTimerOnceExhausted ==
    \A c \in Instances :
        LET o == connector[c]
            rc == o.config.reconnect
        IN  (rc.enabled /\ rc.maxAttempts > 0 /\ o.attemptNo >= rc.maxAttempts
                /\ ~o.manualRetry /\ o.status = ERROR)
            => NoReconnectTimer(o)

\* C4: a connector in Errored stays in Errored unless connect() or
\* disconnect() is called.
C4_ErroredIsTerminal ==
    [][\A c \in Instances :
          (connector[c].status = ERROR /\ last'.act \notin {"connect", "disconnect"})
          => connector'[c].status = ERROR]_vars

\* the socket of a Connected connector has just closed
ClosedWhileConnected(c) ==
    last.act \in {"close", "orphanClose"} /\ last.c = c /\ last.prev = CONNECTED

\* a reconnect timer has just fired on a Reconnecting connector
TimerWhileReconnecting(c) ==
    /\ last.act \in {"reconnectTimer", "leakedReconnectTimer"}
    /\ last.c = c /\ last.prev = RECONNECTING

\* C5 as amended: when the socket of a Connected connector closes, the
\* connector enters Reconnecting with a reconnect timer pending if reconnect
\* is enabled, and Disconnected if it is not; a reconnect timer that fires on
\* a Reconnecting connector moves it to Connecting.
C5_CloseOfConnected ==
    \A c \in Instances :
        LET o == connector[c] IN
        /\ ClosedWhileConnected(c) =>
                IF o.config.reconnect.enabled
                THEN o.status = RECONNECTING /\ o.reconnectTimeout # <<>>
                ELSE o.status = DISCONNECTED
        /\ TimerWhileReconnecting(c) => o.status = CONNECTING

\* a Connected connector with reconnect enabled has just lost its socket
C5_Witness ==
    \E c \in Instances :
        ClosedWhileConnected(c) /\ connector[c].status = RECONNECTING

\* C5 as stated: ... otherwise (reconnect disabled, or attempts exhausted)
\* the connector enters Errored.
C5_Original ==
    \A c \in Instances :
        LET o == connector[c]
            rc == o.config.reconnect
        IN  /\ ClosedWhileConnected(c) =>
                    IF rc.enabled /\ (rc.maxAttempts = 0 \/ o.reconnectAttempts <= rc.maxAttempts)
                    THEN o.status = RECONNECTING
                    ELSE o.status = ERROR
            /\ TimerWhileReconnecting(c) => o.status = CONNECTING

\* C6: when disconnect() returns the connector is Disconnected, its attempt
\* counter is 0, no reconnect timer and no keep-alive timer is pending, it
\* names no socket, its cached snapshot (and FoxBit's two maps) are empty;
\* called on a Disconnected connector it emits no status event.
C6_DisconnectResets ==
    \A c \in Instances :
        (last.act = "disconnect" /\ last.c = c) =>
            LET o == connector[c] IN
            /\ o.status = DISCONNECTED
            /\ o.reconnectAttempts = 0
            /\ NoReconnectTimer(o)
            /\ ~o.pingInterval
            /\ o.ws = NoSocket
            /\ o.orderBook = <<>>
            /\ o.bidsMap = <<>> /\ o.asksMap = <<>>
            /\ last.prev = DISCONNECTED =>
                    \A i \in 1..Len(last.ev) : last.ev[i].type # STATUS_CHANGE

\* C7: connect() on a Connecting or Connected connector changes nothing of
\* the connector (socket, status, counter, timers, pending promises) and
\* emits, sends and schedules nothing.
C7_ConnectIsIdempotent ==
    [][\A c \in Instances :
          (connector[c].status \in {CONNECTING, CONNECTED}
              /\ last'.act = "connect" /\ last'.c = c)
          => (connector'[c] = connector[c]
              /\ last'.ev = <<>> /\ last'.sent = <<>> /\ last'.sched = <<>>)]_vars

\* connect() has just been called on a Connected connector
C7_Witness ==
    last.act = "connect" /\ last.prev = CONNECTED /\ last.ev = <<>>

\* initialDelayMs * backoffMultiplier^(k-1), as a fraction
ClaimedDelay(rc, k) ==
    <<rc.delayMs * Pow(rc.backoffMultiplier[1], k - 1), Pow(rc.backoffMultiplier[2], k - 1)>>

\* C8: the reconnect timer that starts the k-th reconnect attempt since the
\* connector was last Connected (the client calling no connect() in between)
\* was scheduled with the delay initialDelayMs * backoffMultiplier^(k-1).
C8_BackoffDelay ==
    \A c \in Instances :
        (last.act \in {"reconnectTimer", "leakedReconnectTimer"} /\ last.c = c
            /\ EmittedStatus(CONNECTING) /\ ~connector[c].manualRetry)
        => RatEq(last.fired[1],
                 ClaimedDelay(connector[c].config.reconnect, connector[c].attemptNo))

\* the 10 s timer of a connect() has just fired
TimedOut(c) == last.act = "connectTimeout" /\ last.c = c

\* the policy allows a further reconnect: enabled and attempts left
PolicyAllows(o) ==
    LET rc == o.config.reconnect
    IN  rc.enabled /\ (rc.maxAttempts = 0 \/ o.reconnectAttempts < rc.maxAttempts)

\* C9, the steps: a pending connect() is settled by the status poll finding
\* Connected (resolve) or Errored (reject) or by its 10 s timer; the timer
\* makes the connector Errored and takes the reconnect path: a reconnect is
\* scheduled and the connector is Reconnecting if the policy allows, and the
\* connector is left Errored if not.
C9_Settling ==
    \A c \in Instances :
        /\ \A i \in WaitIds :
            (i \in connector[c].connectWaits /\ i \notin connector'[c].connectWaits)
            => /\ last'.c = c
               /\ \/ last'.act = "pollResolve" /\ connector[c].status = CONNECTED
                  \/ last'.act = "pollReject" /\ connector[c].status = ERROR
                  \/ last'.act = "connectTimeout"
        /\ (last'.act = "connectTimeout" /\ last'.c = c) =>
            IF PolicyAllows(connector[c])
            THEN /\ connector'[c].status = RECONNECTING
                 /\ Len(last'.sched) = 1
                 /\ connector'[c].reconnectTimeout = last'.sched
            ELSE connector'[c].status = ERROR /\ last'.sched = <<>>

C11_DestroyIsFinal ==
    \A c \in Instances :
        c \in manager.destroyedWith =>
            /\ connector[c].status = DISCONNECTED
            /\ connector[c].ws \notin {WS_CONNECTING, WS_OPEN}
            /\ NoReconnectTimer(connector[c])

\* the fields of the OrderBookManager object (what the model adds to observe
\* it is left out)
ManagerFields ==
    {"connectors", "orderBooks", "unsubscribers", "orderBookCallbacks",
     "statusCallbacks", "errorCallbacks", "debounceTimeout", "pendingUpdate"}

\* C12: when destroy() returns, every field of the manager (connectors,
\* subscriptions, cached snapshots, the three listener sets, the debounce
\* timer and the pending-update flag) is as the constructor leaves it.
C12_DestroyClearsAll ==
    last.act = "destroy" =>
        \A f \in ManagerFields : manager[f] = NewManager(manager.config)[f]

\* C13: the snapshots the manager caches, which getConsolidatedOrderBook() and
\* every consolidated publish copy, hold no entry for an exchange that is not
\* registered: none is left by unregisterConnector(x), and none is added by a
\* snapshot connector x emits afterwards.
C13_NoEntryOnceUnregistered ==
    \A x \in Exchanges : x \notin Registered(manager) => manager.orderBooks[x] = <<>>

\* a connector that was unregistered (not destroyed) has just emitted a snapshot
C13_Witness ==
    \E x \in Instances :
        /\ x \notin Registered(manager) /\ x \notin manager.destroyedWith
        /\ last.act = "message" /\ last.c = x /\ EmittedBook

\* unregisterConnector(x) has just returned, x having been registered
Unregistered(x) == last.act = "unregister" /\ last.c = x /\ last.stPub >= 1

\* C14: when unregisterConnector(x) returns, x having been registered in any
\* status, connector x is Disconnected with no reconnect timer pending, the
\* manager holds no subscription, no snapshot and no entry for x, and it has
\* republished the status.
C14_UnregisterDisconnects ==
    \A x \in Instances :
        Unregistered(x) =>
            /\ connector[x].status = DISCONNECTED
            /\ NoReconnectTimer(connector[x])
            /\ "manager" \notin connector[x].listeners
            /\ x \notin manager.unsubscribers
            /\ x \notin Registered(manager)
            /\ manager.orderBooks[x] = <<>>

\* the snapshots the last step emitted
EmittedBooks ==
    {last.ev[i].data[1] : i \in {j \in 1..Len(last.ev) : last.ev[j].type = ORDER_BOOK_UPDATE}}

StrictlyDescending(levels) ==
    \A i \in 1..(Len(levels) - 1) : levels[i].price > levels[i + 1].price

StrictlyAscending(levels) ==
    \A i \in 1..(Len(levels) - 1) : levels[i].price < levels[i + 1].price

\* C15: every snapshot a connector emits has its bids strictly descending and
\* its asks strictly ascending by price (so no price twice within a side).
C15_SidesSorted ==
    \A b \in EmittedBooks : StrictlyDescending(b.bids) /\ StrictlyAscending(b.asks)

\* the levels a frame brings for one side: the frame's own levels for the
\* two full-snapshot connectors, the levels of the reconstructed map for FoxBit
ReceivedLevels(c, pairs, map) ==
    CASE c = "binance" -> ParseLevels(pairs)
      [] c = "mercadobitcoin" ->
            [i \in 1..Len(pairs) |-> [price |-> pairs[i][1], quantity |-> pairs[i][2]]]
      [] c = "foxbit" -> ParseLevels(map)

\* price p is a better price than q on this side
Beats(p, q, desc) == IF desc THEN p > q ELSE p < q

\* emitted is the d best levels of received, the best first
IsBest(emitted, received, desc, d) ==
    /\ Len(emitted) = Min(d, Len(received))
    /\ \A i \in 1..(Len(emitted) - 1) :
            ~Beats(emitted[i + 1].price, emitted[i].price, desc)
    /\ \A i \in 1..Len(emitted) : \E j \in 1..Len(received) : received[j] = emitted[i]
    /\ \A j \in 1..Len(received) : \A i \in 1..Len(emitted) :
            ~Beats(received[j].price, emitted[i].price, desc)
            \/ \E k \in 1..Len(emitted) : emitted[k] = received[j]

\* C16: a connector configured with depth d > 0 that receives n levels on a
\* side emits min(d, n) levels on that side, the min(d, n) best of them (the
\* highest bids, the lowest asks), the best first.
C16_DepthTrim ==
    [][\A c \in Instances : \A msg \in BookFrames(c) :
          (last'.act = "message" /\ connector[c].config.depth > 0 /\ SocketMessage(c, msg))
          => LET d == connector[c].config.depth
                 b == connector'[c].orderBook[1]
             IN  /\ IsBest(b.bids, ReceivedLevels(c, msg.bids, connector'[c].bidsMap), TRUE, d)
                 /\ IsBest(b.asks, ReceivedLevels(c, msg.asks, connector'[c].asksMap), FALSE, d)]_vars

\* the entries of a side's map at price p, and at the other prices
LevelsAt(m, p) == {i \in 1..Len(m) : m[i][1] = p}
LevelsElsewhere(m, p) == {m[i] : i \in {j \in 1..Len(m) : m[j][1] # p}}

\* what applying the diff entry e to the side m must give
LastWriteWins(m, e) ==
    LET after == ApplyEntry(m, e) IN
    /\ IF e[2] = "0" THEN LevelsAt(after, e[1]) = {}
        ELSE \E i \in 1..Len(after) : LevelsAt(after, e[1]) = {i} /\ after[i][2] = e[2]
    /\ LevelsElsewhere(after, e[1]) = LevelsElsewhere(m, e[1])
    /\ ApplyEntry(after, e) = after

\* C17: whatever a side of the FoxBit connector holds, applying a diff entry
\* (p, q) with q other than "0" leaves exactly one level at p, with quantity
\* q, applying (p, "0") leaves no level at p, the levels at the other prices
\* are unchanged, and applying the entry a second time changes nothing.
C17_LastWriteWins ==
    \A c \in Instances :
        /\ \A e \in BidPrices \X BidQuantities : LastWriteWins(connector[c].bidsMap, e)
        /\ \A e \in AskPrices \X AskQuantities : LastWriteWins(connector[c].asksMap, e)

\* a diff has just been applied and the bid side holds two levels, one of
\* them at "100" with quantity "2"
C17_Witness ==
    \E c \in Instances :
        /\ last.act = "message" /\ last.c = c /\ EmittedBook
        /\ Len(connector[c].bidsMap) = 2
        /\ \E i \in 1..2 : connector[c].bidsMap[i] = <<"100", "2">>

\* C18: no snapshot the FoxBit connector emits has a level whose quantity is
\* zero.
C18_NoZeroLevel ==
    \A b \in EmittedBooks :
        b.exchange = "foxbit" =>
            /\ \A i \in 1..Len(b.bids) : b.bids[i].quantity # 0
            /\ \A i \in 1..Len(b.asks) : b.asks[i].quantity # 0

\* the REST fetch of the bootstrap has just failed
BootstrapFailed(c) ==
    last.act = "fetchDone" /\ last.c = c /\ ~EmittedBook

\* the step in which the fetch fails: a Failed event, socket and status kept
C19_FailureIsSoft ==
    \A c \in Instances :
        (last'.act = "fetchDone" /\ last'.c = c /\ last'.ev # <<>>
            /\ last'.ev[1].type # ORDER_BOOK_UPDATE)
        => /\ last'.ev[1] = FetchFailure(c)
           /\ connector'[c].status = connector[c].status
           /\ connector'[c].ws = connector[c].ws

\* C19: when FoxBit's bootstrap fetch fails, the connector emits a Failed
\* event and keeps its socket and its status, and while that socket stays
\* open a further bootstrap fetch is eventually started.
C19_BootstrapRetried ==
    /\ [][C19_FailureIsSoft]_vars
    /\ (BootstrapFailed("foxbit") /\ connector["foxbit"].ws = WS_OPEN)
            ~> (connector["foxbit"].fetches > 0 \/ connector["foxbit"].ws # WS_OPEN)

\* C20: a frame that is malformed, of a type the handler skips, or an error
\* frame of the server changes nothing of the connector (status, socket,
\* cached snapshot, the maps the next snapshot is built from, timers), and a
\* malformed frame or an error frame is reported by one ERROR event.
C20_ProtocolErrorsAreSoft ==
    [][\A c \in Instances : \A msg \in Messages(c) :
          (msg.kind # "book" /\ SocketMessage(c, msg))
          => /\ connector'[c] = connector[c]
             /\ msg.kind \in {"garbage", "partial", "error"}
                    => Len(last'.ev) = 1 /\ last'.ev[1].type = ERROR_EVENT]_vars

\* C21: a connector that is not Connected holds no cached snapshot: its
\* orderBook accessor returns null.
C21_NoBookUnlessConnected ==
    \A c \in Instances :
        connector[c].status # CONNECTED => connector[c].orderBook = <<>>

\* how often the last step called this listener
Calls(kind, cb) == CopiesIn(<<kind, cb>>, last.calls)

\* C22, the steps: every event a connector emits is delivered once to each
\* listener registered with it, every publish of the manager once to each
\* callback of the set it goes to, a listener that throws or not; and a
\* consolidated publish opens the debounce window.
C22_Delivery ==
    /\ \A c \in Instances : \A l \in {"manager", "client"} :
          CopiesIn(<<"connector", l>>, last'.calls)
              = IF l \in connector[c].listeners THEN Len(last'.ev) ELSE 0
    /\ \A cb \in ListenerIds :
          /\ CopiesIn(<<"orderBook", cb>>, last'.calls)
                = IF cb \in manager.orderBookCallbacks THEN last'.obPub ELSE 0
          /\ CopiesIn(<<"status", cb>>, last'.calls)
                = IF cb \in manager.statusCallbacks THEN last'.stPub ELSE 0
          /\ CopiesIn(<<"error", cb>>, last'.calls)
                = IF cb \in manager.errorCallbacks THEN last'.errPub ELSE 0
    /\ (last'.obPub >= 1 /\ manager.config.debounceMs > 0) => manager'.debounceTimeout

\* C22: delivery is exactly once per registered listener, whatever a listener
\* throws.
C22_DeliveredOnceToEach == [][C22_Delivery]_vars

\* a consolidated publish in which the callback that throws and another one
\* were called, after which the window is open
C22_Witness ==
    /\ last.obPub = 1 /\ last.caught >= 1
    /\ Calls("orderBook", 1) = 1 /\ Calls("orderBook", 2) = 1
    /\ manager.debounceTimeout

\* C23, the steps: updateConfig(partial) on a Connected connector emits
\* Disconnected and then Connecting, sends the unsubscribe frame (where the
\* class has one and the socket is open) with the symbol of the old
\* configuration, discards the cached snapshot, leaves the merged
\* configuration, and starts an attempt on a new socket whose URL is built
\* from the merged configuration; called in any other status it only merges.
C23_Cycle ==
    \A c \in Instances : \A partial \in ConfigUpdates :
        UpdateConfig(c, partial) =>
            LET old == connector[c]
                new == connector'[c]
                merged == MergeConfig(old.config, partial)
            IN  /\ new.config = merged
                /\ \A k \in DOMAIN partial : new.config[k] = partial[k]
                /\ \A k \in DOMAIN old.config \ DOMAIN partial : new.config[k] = old.config[k]
                /\ IF old.status = CONNECTED
                   THEN /\ last'.ev = <<StatusEvent(DISCONNECTED), StatusEvent(CONNECTING)>>
                        /\ new.status = CONNECTING
                        /\ new.ws = WS_CONNECTING
                        /\ new.url = SocketUrl(c, merged)
                        /\ new.orderBook = <<>>
                        /\ new.connectWaits # old.connectWaits
                        /\ last'.sent =
                              IF HasKeepAlive(c) /\ old.ws = WS_OPEN
                              THEN <<(<<"unsubscribe", toExchangeSymbol(old.config.symbol, c)>>)>>
                              ELSE <<>>
                   ELSE /\ last'.ev = <<>> /\ last'.sent = <<>>
                        /\ new.status = old.status /\ new.ws = old.ws

\* every subscribe frame carries the symbol of the current configuration
C23_SubscribesCurrent ==
    \A c \in Instances : \A i \in 1..Len(last'.sent) :
        (last'.c = c /\ last'.sent[i][1] = "subscribe")
        => last'.sent[i][2] = toExchangeSymbol(connector'[c].config.symbol, c)

\* C23: updateConfig on a Connected connector is a full disconnect/connect
\* cycle on the merged configuration.
C23_UpdateConfigCycles == [][C23_Cycle /\ C23_SubscribesCurrent]_vars

\* updateConfig has just changed the symbol of a Connected keep-alive
\* connector: the old symbol was unsubscribed, a new attempt is under way
C23_Witness ==
    \E c \in Instances :
        /\ last.act = "updateConfig" /\ last.c = c /\ last.prev = CONNECTED
        /\ last.sent = <<(<<"unsubscribe", toExchangeSymbol("BTC/USDT", c)>>)>>
        /\ connector[c].config.symbol = "eth-brl"
        /\ connector[c].status = CONNECTING

-----------------------------------------------------------------------------
\* C24: registerConnector(c) with an id that is already registered changes
\* nothing (the connectors, the subscriptions and the cached snapshots stay,
\* no connector is touched, nothing is published); with a new id it stores
\* the connector last, subscribes to it, leaves the snapshots and the status
\* of the connector alone and publishes the status exactly once.
C24_Register ==
    \A c \in Instances :
        RegisterConnector(c) =>
            IF c \in Registered(manager)
            THEN /\ \A f \in ManagerFields : manager'[f] = manager[f]
                 /\ connector' = connector
                 /\ last'.stPub = 0 /\ last'.obPub = 0 /\ last'.inv = 0
                 /\ last'.ev = <<>>
            ELSE /\ manager'.connectors = Append(manager.connectors, c)
                 /\ "manager" \in connector'[c].listeners
                 /\ c \in manager'.unsubscribers
                 /\ manager'.orderBooks = manager.orderBooks
                 /\ connector'[c].status = connector[c].status
                 /\ last'.stPub = 1 /\ last'.obPub = 0 /\ last'.errPub = 0
                 /\ last'.inv = Cardinality(manager.statusCallbacks)

C24_RegisterOnce == [][C24_Register]_vars

\* registerConnector has just returned for a connector that was registered
\* and connected before the call, with a status listener that was not called
C24_Witness ==
    \E c \in Instances :
        /\ last.act = "register" /\ last.c = c /\ last.stPub = 0
        /\ c \in Registered(manager)
        /\ connector[c].status = CONNECTED
        /\ manager.statusCallbacks # {}

-----------------------------------------------------------------------------
\* C25: connectAll() starts a connection attempt on every registered
\* connector whatever its status: a connector that was neither connected nor
\* connecting, an errored one in particular, is Connecting when it returns.
C25_Started ==
    ConnectAll =>
        \A c \in Registered(manager) :
            connector[c].status \notin {CONNECTED, CONNECTING}
                => connector'[c].status = CONNECTING

C25_ConnectAllStartsAll == [][C25_Started]_vars

-----------------------------------------------------------------------------
\* C26: connectAll() calls connect() on every connector it finds disconnected
\* in one step, whatever the other connectors do; a connect() that settles,
\* rejected or not, touches no other connector; the promise connectAll()
\* returned is never rejected, is pending exactly while a connect() it
\* started is (it is fulfilled in the step that settles the last of them),
\* and is always fulfilled in the end.
C26_Independent ==
    /\ ConnectAll =>
          \A c \in Registered(manager) :
              connector[c].status = DISCONNECTED =>
                  /\ connector'[c].status = CONNECTING
                  /\ connector'[c].connectWaits # connector[c].connectWaits
    /\ \A c \in Instances : \A i \in connector[c].connectWaits :
          (PollConnection(c, i) \/ ConnectTimeout(c, i)) =>
              \A y \in Instances \ {c} : connector'[y] = connector[y]

\* the connect() promises of the call followed that have not settled
Unsettled(m) == {p \in DOMAIN m.awaited : m.awaited[p] = "pending"}

C26_Awaits ==
    /\ ConnectAllPromise(manager) # "rejected"
    /\ \A p \in Unsettled(manager) : p[2] \in connector[p[1]].connectWaits

C26_Completion ==
    ConnectAllPromise(manager) = "pending" =>
        (ConnectAllPromise(manager)' = "fulfilled" <=>
            \A p \in Unsettled(manager) : p[2] \notin connector'[p[1]].connectWaits)

C26_ConnectAllCompletes ==
    /\ [][C26_Independent /\ C26_Completion]_vars
    /\ []C26_Awaits
    /\ (ConnectAllPromise(manager) = "pending") ~> (ConnectAllPromise(manager) = "fulfilled")

\* the promise of a connectAll() that started two attempts is fulfilled, one
\* of the two connect() having been rejected and the other resolved
C26_Witness ==
    /\ ConnectAllPromise(manager) = "fulfilled"
    /\ \E p, q \in DOMAIN manager.awaited :
          manager.awaited[p] = "rejected" /\ manager.awaited[q] = "fulfilled"

-----------------------------------------------------------------------------
\* the STATUS_CHANGE events the connectors emitted in a step
StatusEvents(o) == {i \in 1..Len(o.ev) : o.ev[i].type = STATUS_CHANGE}

\* C27: every status event of a registered connector makes the manager
\* publish the status in the same step, whether or not a debounce window is
\* open (the window and the pending flag are left as they are), and the
\* status published last is getStatus() of the state the step ends in.
C27_Publish ==
    \A c \in Registered(manager) :
        (last'.c = c /\ last'.act \notin {"register", "unregister"}
                /\ StatusEvents(last') # {})
            => /\ last'.stPub = Cardinality(StatusEvents(last'))
               /\ last'.status = <<GetStatus(connector', manager')>>
               /\ last'.status[1].byExchange[c] = connector'[c].status
               /\ manager'.debounceTimeout = manager.debounceTimeout
               /\ manager'.pendingUpdate = manager.pendingUpdate
               /\ last'.obPub = 0

C27_StatusIsImmediate == [][C27_Publish]_vars

\* the socket of a registered connector has closed while a debounce window
\* was open: the status was published to a listener, the window is still open
C27_Witness ==
    \E c \in Registered(manager) :
        /\ last.act = "close" /\ last.c = c
        /\ last.preTimer /\ manager.debounceTimeout
        /\ last.stPub = 1 /\ last.inv >= 1
        /\ last.status # <<>> /\ last.status[1].byExchange[c] = DISCONNECTED

-----------------------------------------------------------------------------
\* C28: the keys of getStatus().byExchange are exactly the registered ids,
\* each mapped to the current status of its connector, and the four counts
\* (Reconnecting counted with the connecting) add up to the number of
\* registered connectors.
C28_StatusIsExact ==
    LET st == GetStatus(connector, manager)
    IN  /\ DOMAIN st.byExchange = Registered(manager)
        /\ \A x \in Registered(manager) : st.byExchange[x] = connector[x].status
        /\ st.connectedCount + st.connectingCount + st.disconnectedCount + st.errorCount
              = Cardinality(Registered(manager))
        /\ st.connectingCount =
              Cardinality({x \in Registered(manager) :
                              connector[x].status \in {CONNECTING, RECONNECTING}})

\* two connectors are registered, one Reconnecting and one Errored
C28_Witness ==
    /\ Cardinality(Registered(manager)) = 2
    /\ \E x, y \in Registered(manager) :
          connector[x].status = RECONNECTING /\ connector[y].status = ERROR

-----------------------------------------------------------------------------
\* the ERROR events the connectors emitted in a step, in order
ErrorEvents(o) == SelectSeq(o.ev, LAMBDA e : e.type = ERROR_EVENT)

\* C29: an ERROR event of a registered connector x is published in the same
\* step to every error listener exactly once, as the id x with the message
\* and the cause of the event; the manager's cached snapshots, its debounce
\* window and pending flag, and every other connector are left as they are.
C29_Forward ==
    \A x \in Registered(manager) :
        (last'.c = x /\ last'.act \in {"message", "close"} /\ ErrorEvents(last') # <<>>)
            => /\ Len(ErrorEvents(last')) = 1
               /\ ErrorEvents(last')[1].exchange = x
               /\ last'.errors = <<ManagerError(ErrorEvents(last')[1])>>
               /\ last'.errPub = 1
               /\ \A cb \in manager.errorCallbacks : CopiesIn(<<"error", cb>>, last'.calls) = 1
               /\ last'.inv = Cardinality(manager.errorCallbacks) + last'.stPub *
                                    Cardinality(manager.statusCallbacks)
               /\ last'.obPub = 0
               /\ manager'.orderBooks = manager.orderBooks
               /\ manager'.debounceTimeout = manager.debounceTimeout
               /\ manager'.pendingUpdate = manager.pendingUpdate
               /\ manager'.connectors = manager.connectors
               /\ \A y \in Instances \ {x} : connector'[y] = connector[y]

C29_ErrorsAreForwarded == [][C29_Forward]_vars

\* a frame of the connector registered second could not be parsed while a
\* debounce window was open and both connectors held a snapshot: the error
\* went to two listeners
C29_Witness ==
    /\ Len(manager.connectors) = 2
    /\ last.act = "message" /\ last.c = manager.connectors[2]
    /\ last.errors # <<>> /\ last.errors[1].exchange = last.c
    /\ last.preTimer /\ last.inv = 2
    /\ \A y \in Instances : manager.orderBooks[y] # <<>>

-----------------------------------------------------------------------------
\* the registered connectors that are Connected and hold a snapshot
Live == {c \in Registered(manager) :
            connector[c].status = CONNECTED /\ connector[c].orderBook # <<>>}

\* C30: whenever a registered connector is Connected and holds a snapshot,
\* the symbol of the consolidated order book is the symbol of such a
\* connector, not "UNKNOWN", in whatever order the connectors were
\* registered.
C30_SymbolOfConnected ==
    Live # {} =>
        /\ GetConsolidatedOrderBook(connector, manager).symbol # "UNKNOWN"
        /\ \E c \in Live :
              GetConsolidatedOrderBook(connector, manager).symbol
                  = connector[c].orderBook[1].symbol

-----------------------------------------------------------------------------
\* the letters and digits of a pair, in order
LettersAndDigits(symbol) ==
    SelectSeq(Chars(symbol),
              LAMBDA ch : Occurs(UpperCase, ch) \/ Occurs(LowerCase, ch) \/ Occurs(Digits, ch))

\* the native form of a pair: base and quote concatenated, in lower case for
\* Binance and in upper case for the other exchanges
NativeSymbol(symbol, toFormat) ==
    IF toFormat = "binance" THEN ToLowerCase(LettersAndDigits(symbol))
    ELSE ToUpperCase(LettersAndDigits(symbol))

\* C31: toExchangeSymbol keeps every letter and digit of the pair and drops
\* the separator: the symbol in the URL of a Binance socket is the lowercase
\* concatenation of base and quote ("BTC/USDT" gives "btcusdt"), the symbol
\* in every subscribe and unsubscribe frame of the other classes the
\* uppercase concatenation.
C31_NativeSymbol ==
    \A c \in Instances :
        /\ (c = "binance" /\ connector[c].url # <<>>)
              => connector[c].url[2] = NativeSymbol(connector[c].config.symbol, c)
        /\ \A i \in 1..Len(last.sent) :
              (last.c = c /\ last.sent[i][1] \in {"subscribe", "unsubscribe"})
                  => last.sent[i][2] = NativeSymbol(connector[c].config.symbol, c)


-----------------------------------------------------------------------------
(* SpecReentrant: a manager with one connector, constructed with reconnect *)
(* disabled, and a subscriber of the consolidated book that unregisters    *)
(* the connector from inside the publish.                                  *)

InitReentrant == \E c \in ManagedExchanges : InitWith({c}, ManagedConfigs, {100})

CallerNext ==
    \/ \E c \in Instances : RegisterConnector(c)
    \/ \E c \in Instances : UnregisterConnector(c)
    \/ \E cb \in UnregisteringCallbacks : OnOrderBookUpdate(cb)
    \/ ConnectAll

StreamNext ==
    \/ \E c \in Instances : SocketOpen(c)
    \/ \E c \in Instances : \E msg \in Messages(c) : SocketMessage(c, msg)

WindowNext ==
    \/ DebounceTimer
    \/ LeakedDebounceTimer

NextReentrant == CallerNext \/ StreamNext \/ WindowNext

SpecReentrant == InitReentrant /\ [][NextReentrant]_vars

\* the debounce timers of the manager that are pending
PendingDebounceTimers(m) == (IF m.debounceTimeout THEN 1 ELSE 0) + m.leakedDebounce

\* C32: in every reachable state of the manager at most one debounce timer
\* is pending, and a follow-up publish is owed only while one is (the state
\* is Idle, Scheduled or Scheduled-with-pending), calls of the manager from
\* inside a subscriber's callback included
C32_OneDebounceTimer ==
    /\ PendingDebounceTimers(manager) <= 1
    /\ manager.pendingUpdate => manager.debounceTimeout


\* the sockets of connector c that are connecting or open with the
\* connector's callbacks attached: the one _ws refers to and those of
\* earlier attempts
Sessions(o) == (IF o.ws \in {WS_CONNECTING, WS_OPEN} THEN 1 ELSE 0) + o.orphConn + o.orphOpen

\* C33: a connector owns at most one WebSocket session: when connect() has
\* created a socket no socket of an earlier attempt is still connecting or
\* open with its callbacks attached
C33_OneSession == \A c \in DOMAIN connector : Sessions(connector[c]) <= 1


\* the step sends FoxBit's subscribe frame
SendsSubscribe(o) == \E i \in 1..Len(o.sent) : o.sent[i][1] = "subscribe"

\* the step publishes a snapshot of connector c
PublishesSnapshot(o) == \E i \in 1..Len(o.ev) : o.ev[i].type = ORDER_BOOK_UPDATE

\* C34: FoxBit's subscribe frame is sent only by the continuation of
\* _handleOpen whose REST fetch has seeded the maps and published the
\* bootstrap snapshot: no diff is streamed to maps that were not seeded
C34_Subscribe ==
    (last'.c = "foxbit" /\ SendsSubscribe(last'))
        => /\ last'.act = "fetchDone"
           /\ PublishesSnapshot(last')

C34_SeededBeforeSubscribe == [][C34_Subscribe]_vars


\* the reconnect timers of a connector that are pending: the one
\* _reconnectTimeout names and those whose handle was overwritten
ReconnectTimers(o) == Len(o.reconnectTimeout) + BagCardinality(o.leakedTimers)

\* C35: at most one reconnect timer is pending per connector: a failure
\* that both the close callback and the timeout of connect() report is
\* scheduled once
C35_OneReconnectTimer == \A c \in DOMAIN connector : ReconnectTimers(connector[c]) <= 1


\* C36: a Connected connector leaves that state only through a close of a
\* socket, disconnect() or updateConfig(): neither the timer nor the poll
\* of a connect() moves it to Errored or Reconnecting
C36_Leave ==
    \A c \in DOMAIN connector :
        (connector[c].status = CONNECTED /\ connector'[c].status # CONNECTED)
            => last'.act \in {"close", "orphanClose", "disconnect", "updateConfig"}

C36_ConnectedIsStable == [][C36_Leave]_vars


\* C37: a connector publishes a snapshot, caches it and starts its
\* keep-alive interval only while it is Connected: a bootstrap fetch of
\* FoxBit that settles after disconnect() or a close does none of the three
C37_Step ==
    \A c \in DOMAIN connector :
        connector'[c].status # CONNECTED
            => /\ ~(last'.c = c /\ PublishesSnapshot(last'))
               /\ connector'[c].orderBook # connector[c].orderBook
                      => connector'[c].orderBook = <<>>
               /\ connector'[c].pingInterval => connector[c].pingInterval

C37_OnlyWhileConnected == [][C37_Step]_vars


-----------------------------------------------------------------------------
(* SpecWindow: a manager that debounces (100 ms) with one connector,       *)
(* constructed with reconnect disabled, and subscribers of the             *)
(* consolidated book; the debounce timer, once set, fires unless destroy   *)
(* clears it.                                                              *)

InitWindow == \E c \in ManagedExchanges : InitWith({c}, ManagedConfigs, {100})

OwnerNext ==
    \/ \E c \in Instances : RegisterConnector(c)
    \/ \E c \in Instances : UnregisterConnector(c)
    \/ \E cb \in CallbackIds : OnOrderBookUpdate(cb)
    \/ ConnectAll
    \/ Destroy

NextWindow == OwnerNext \/ StreamNext \/ DebounceTimer

SpecWindow == InitWindow /\ [][NextWindow]_vars /\ WF_vars(DebounceTimer)

\* the snapshots among the events of the step
SnapshotsOf(o) == {o.ev[i].data : i \in {j \in 1..Len(o.ev) : o.ev[j].type = ORDER_BOOK_UPDATE}}

\* the manager has just received a snapshot of exchange x
SnapshotReceived(x) ==
    /\ last.act = "message" /\ last.c = x
    /\ PublishesSnapshot(last)
    /\ x \in Registered(manager)

\* the step has published a consolidated book that holds the cache entry of x
PublishedFor(x) ==
    /\ last.books # <<>>
    /\ manager.orderBooks[x] # <<>>
    /\ last.books[Len(last.books)].byExchange[x] = manager.orderBooks[x]

\* the snapshot a registered connector emits is the cache entry afterwards
C38_Cached ==
    \A x \in Registered(manager) :
        (last'.act = "message" /\ last'.c = x /\ PublishesSnapshot(last'))
            => SnapshotsOf(last') = {manager'.orderBooks[x]}

\* C38: no update is lost: a snapshot the manager receives for a registered
\* exchange is cached, and a consolidated publish that holds the cache
\* entry of the exchange follows, unless the exchange is unregistered or the
\* manager destroyed first (the debounce timer fires)
C38_NoUpdateLost ==
    /\ [][C38_Cached]_vars
    /\ \A x \in ManagedExchanges :
            SnapshotReceived(x)
                ~> (PublishedFor(x) \/ x \notin Registered(manager) \/ manager.destroyed)

\* a snapshot that arrived in an open window is published when the timer
\* fires
C38_Witness ==
    /\ last.act = "debounceTimer"
    /\ last.preWindowEvents >= 1
    /\ \E x \in Registered(manager) : PublishedFor(x)


\* the step publishes the consolidated book
Publishes(o) == o.obPub >= 1

\* C39: with debounceMs > 0 a consolidated publish happens only when no
\* debounce timer is pending (the timer that fires is no longer pending),
\* every publish opens a new window, and a window in which no call of
\* _emitOrderBookUpdate arrived ends with no publish and the manager Idle
C39_Step ==
    manager.config.debounceMs > 0 =>
        /\ Publishes(last') =>
                /\ ~manager.debounceTimeout \/ last'.act = "debounceTimer"
                /\ last'.obPub = 1
                /\ manager'.debounceTimeout
        /\ (last'.act = "debounceTimer" /\ ~manager.windowCalls) =>
                /\ ~Publishes(last')
                /\ ~manager'.debounceTimeout /\ ~manager'.pendingUpdate

C39_FullWindow == [][C39_Step]_vars


\* the exchanges the snapshot cache has an entry for
CacheKeys(m) == {x \in Exchanges : m.orderBooks[x] # <<>>}

\* the connectors that have the manager's handler in their listener set
Subscriptions == {c \in DOMAIN connector : "manager" \in connector[c].listeners}

\* C40: in every reachable state the keys of the snapshot cache are
\* registered exchanges, and the manager holds a subscription (the closure
\* in _unsubscribers, the handler in the connector's listeners) for the
\* registered exchanges and no other
C40_CacheAndSubscriptions ==
    /\ CacheKeys(manager) \subseteq Registered(manager)
    /\ manager.unsubscribers = Registered(manager)
    /\ Subscriptions = Registered(manager)

\* a registered connector has just delivered a snapshot inside a debounce
\* window: the cache has its entry, the manager its subscription
C40_Witness ==
    \E x \in Registered(manager) :
        /\ last.act = "message" /\ last.c = x
        /\ CacheKeys(manager) = {x}
        /\ Subscriptions = {x}
        /\ manager.pendingUpdate

====
